---- MODULE Spec2Model ----
(***************************************************************************)
(* Control plane of the VSLAM pipeline (src/src/System.cc): the mode/reset *)
(* controller in front of the tracking calls, Shutdown, and the map        *)
(* save/load protocol with its two-phase reconstruction.                   *)
(***************************************************************************)
EXTENDS Integers, Sequences, FiniteSets, TLC

\* ------------------------------------------------------------------ bounds
MaxCalls == 2
NumSetters == 2
MaxShutdowns == 2
MaxKF == 2
MaxMP == 1
NumSlots == 2
MaxRecords == 3
MaxRows == 3
MaxCols == 4
MaxPad == 1
MaxSeed == 3
MaxBigChange == 3
MaxMaps == 2

\* --------------------------------------------------------------- constants
Sensors == {"MONOCULAR", "STEREO", "RGBD"}
EntryPoints == {"TrackStereo", "TrackRGBD", "TrackMonocular"}
Setters == 1..NumSetters
SetterOps == {"Activate", "Deactivate", "Reset"}
Transitions == {"activate", "deactivate", "reset"}
KFIds == 1..MaxKF
MPIds == 1..MaxMP
SlotIds == 1..NumSlots
Null == 0

VARIABLES
  \* ---- mode/reset controller and the foreground tracking call
  mSensor,                      \* System::mSensor
  fgPc,                         \* position of the foreground thread
  entry,                        \* entry point of the call in progress
  calls,                        \* tracking calls started so far
  mbActivateLocalizationMode,   \* pending-activate
  mbDeactivateLocalizationMode, \* pending-deactivate
  mbReset,                      \* pending-reset
  mMutexMode,                   \* holder of mMutexMode
  mMutexReset,                  \* holder of mMutexReset
  setterPc,                     \* per setter thread: "idle" or the setter it is in
  lmStopRequested,              \* LocalMapping: stop requested
  lmStopped,                    \* LocalMapping: isStopped()
  mbOnlyTracking,               \* Tracking: value of the last InformOnlyTracking
  lastOp,                       \* Tracking: last mutation, who made it, and when
  published,                    \* mTrackingState / mTrackedMapPoints / mTrackedKeyPointsUn
  \* ---- history of the call in progress
  callLog,                      \* calls made on the collaborators, in order
  pendingAtStart,               \* flags that were set when the call started
  applied                       \* transitions applied by the call

VARIABLES
  \* ---- Shutdown and the workers it waits for
  sdPc,                \* position of the thread calling Shutdown
  sdCalls,             \* Shutdown calls that have returned
  mpViewer,            \* a visualization worker was created
  lmFinishRequested,   \* LocalMapping: RequestFinish was called
  lmFinished,          \* LocalMapping: isFinished()
  lcFinishRequested,   \* LoopClosing: RequestFinish was called
  lcFinished,          \* LoopClosing: isFinished()
  gbaRunning,          \* LoopClosing: isRunningGBA()
  vFinishRequested,    \* Viewer: RequestFinish was called
  vFinished            \* Viewer: isFinished()

shutdownVars == <<sdPc, sdCalls, mpViewer, lmFinishRequested, lmFinished,
                  lcFinishRequested, lcFinished, gbaRunning, vFinishRequested,
                  vFinished>>

VARIABLES
  \* ---- construction, SaveMap and LoadMap
  ctorPc,               \* position of the thread that saves, then constructs
  mbOnlyRelocalization, \* configuration: OnlyRelocalization
  mMapFile,             \* configuration: map.mapfile ("" when absent)
  bUseViewer,           \* constructor argument
  lmThread,             \* mptLocalMapping was launched
  lcThread,             \* mptLoopClosing was launched
  viewerThread,         \* mptViewer was launched
  mapFile,              \* the snapshot file on disk
  loadPc,               \* position inside LoadMap
  vpKFs,                \* decoded keyframe sequence (ids, Null for nullptr)
  vMapPoints,           \* decoded landmark sequence (ids, Null for nullptr)
  kfBad,                \* KeyFrame::isBad(), per keyframe object
  mpBad,                \* MapPoint::isBad(), per landmark object
  kfSlots,              \* KeyFrame::mvpMapPoints, per keyframe object
  mpObs,                \* MapPoint::mObservations, per landmark object
  mspKeyFrames,         \* Map: keyframes in the store
  mspMapPoints,         \* Map: landmarks in the store
  kfDB,                 \* KeyFrameDatabase: keyframes in the index
  installOrder,         \* keyframes in the order Map::AddKeyFrame saw them
  count,                \* LoadMap: atomic progress counter
  is_finished,          \* LoadMap: atomic phase-1-complete flag
  p1Pc,                 \* the load_keyframe thread
  p1Idx,                \* its position in vpKFs
  p2Pc,                 \* the load_map_point_thread
  p2Idx,                \* its position in vMapPoints
  ucIdx,                \* LoadMap: position of the UpdateConnections loop
  ucVisited,            \* entries UpdateConnections was called on
  mpFinalized           \* landmarks whose statistics phase 2 recomputed

loadVars == <<ctorPc, mbOnlyRelocalization, mMapFile, bUseViewer, lmThread,
              lcThread, viewerThread, mapFile, loadPc, vpKFs, vMapPoints, kfBad,
              mpBad, kfSlots, mpObs, mspKeyFrames, mspMapPoints, kfDB,
              installOrder, count, is_finished, p1Pc, p1Idx, p2Pc, p2Idx, ucIdx,
              ucVisited, mpFinalized>>

trackVars == <<mSensor, fgPc, entry, calls, mbActivateLocalizationMode,
               mbDeactivateLocalizationMode, mbReset, mMutexMode, mMutexReset,
               setterPc, lmStopRequested, lmStopped, mbOnlyTracking, lastOp,
               published, callLog, pendingAtStart, applied>>

VARIABLES
  \* ---- history of the requests made through the setters
  owed,        \* transitions requested (setter returned, or configured as a
               \* hint) for which no check has started since
  \* ---- a second SaveMap, after a load
  savedAgain   \* the snapshot file it writes

VARIABLES
  \* ---- SaveTrajectoryTUM / SaveTrajectoryKITTI
  mlbLost,        \* Tracking::mlbLost: per trajectory record, the lost flag
  mlpReferences,  \* Tracking::mlpReferences: per record, the reference keyframe
  mpParent,       \* KeyFrame::GetParent(), per keyframe object (Null: none)
  exPc,           \* position of the thread that exports
  exFormat,       \* "TUM" (format A) or "KITTI" (format B)
  exIdx,          \* position of the iterators in the record lists
  pKF,            \* the keyframe the parent-chain walk is at
  outLines        \* the records a line was written for, in order

exportVars == <<mlbLost, mlpReferences, mpParent, exPc, exFormat, exIdx, pKF,
                outLines>>

VARIABLES
  \* ---- the cv::Mat codec of BoostArchiver.h
  codecPc,   \* "source", "encoded" or "decoded"
  cvMat,     \* the matrix handed to save
  stream,    \* the archive: the values written, in order
  cvOut      \* the matrix filled by load

codecVars == <<codecPc, cvMat, stream, cvOut>>

VARIABLES
  \* ---- a thread reading the published tracking results
  readerPc,  \* which of the three getters it calls next
  got        \* what the getters returned to it

readerVars == <<readerPc, got>>

VARIABLES
  \* ---- System::MapChanged and the store's structural-change counter
  MapChanged_n,    \* static int n of System::MapChanged (one per process)
  mnBigChangeIdx,  \* the counter of the store mpMap points to
  mpMap,           \* which store the polled System owns (1: the first one)
  increased,       \* the counter of this store rose since the last poll
  mcLast           \* the last call: what it read, recorded and returned

mcVars == <<MapChanged_n, mnBigChangeIdx, mpMap, increased, mcLast>>

auxVars == <<exportVars, codecVars, readerVars, mcVars>>

vars == <<trackVars, shutdownVars, loadVars, owed, savedAgain, auxVars>>

\* ------------------------------------------------------------ tracking call
SensorOf(e) ==
  CASE e = "TrackStereo" -> "STEREO"
    [] e = "TrackRGBD" -> "RGBD"
    [] e = "TrackMonocular" -> "MONOCULAR"

\* The value handed to InformOnlyTracking when pending-activate is applied.
ActivateInformValue(e) ==
  CASE e = "TrackStereo" -> TRUE
    [] e = "TrackRGBD" -> TRUE
    [] e = "TrackMonocular" -> FALSE

PendingFlags ==
  (IF mbActivateLocalizationMode THEN {"activate"} ELSE {})
    \cup (IF mbDeactivateLocalizationMode THEN {"deactivate"} ELSE {})
    \cup (IF mbReset THEN {"reset"} ELSE {})

\* A mutation of the tracking collaborator by thread th.
TrackerOp(op, th) == [op |-> op, thread |-> th, inGrab |-> fgPc = "grab"]

InitTrack ==
  /\ mSensor \in Sensors
  /\ fgPc = "idle"
  /\ entry = "none"
  /\ calls = 0
  /\ mbActivateLocalizationMode \in BOOLEAN
  /\ mbDeactivateLocalizationMode \in BOOLEAN
  /\ mbReset = FALSE
  /\ mMutexMode = "free"
  /\ mMutexReset = "free"
  /\ setterPc = [t \in Setters |-> "idle"]
  /\ lmStopRequested = FALSE
  /\ lmStopped = FALSE
  /\ mbOnlyTracking = FALSE
  /\ lastOp = [op |-> "none", thread |-> "none", inGrab |-> FALSE]
  /\ published = [state |-> 0, mapPoints |-> 0, keyPoints |-> 0]
  /\ callLog = <<>>
  /\ pendingAtStart = {}
  /\ applied = {}
  /\ owed = PendingFlags

\* Entry of TrackStereo / TrackRGBD / TrackMonocular: the sensor check.
TrackBegin(e) ==
  /\ UNCHANGED <<shutdownVars, loadVars>>
  /\ ctorPc = "done"
  /\ fgPc = "idle"
  /\ calls < MaxCalls
  /\ entry' = e
  /\ calls' = calls + 1
  /\ callLog' = <<>>
  /\ applied' = {}
  /\ pendingAtStart' = PendingFlags
  /\ fgPc' = IF mSensor # SensorOf(e) THEN "exit" ELSE "lockMode"
  /\ UNCHANGED <<mSensor, mbActivateLocalizationMode, mbDeactivateLocalizationMode,
                 mbReset, mMutexMode, mMutexReset, setterPc, lmStopRequested,
                 lmStopped, mbOnlyTracking, lastOp, published>>
  /\ UNCHANGED <<owed, savedAgain, auxVars>>

\* unique_lock<mutex> lock(mMutexMode)
LockMode ==
  /\ UNCHANGED <<shutdownVars, loadVars>>
  /\ fgPc = "lockMode"
  /\ mMutexMode = "free"
  /\ mMutexMode' = "fg"
  /\ fgPc' = "checkActivate"
  /\ UNCHANGED <<mSensor, entry, calls, mbActivateLocalizationMode,
                 mbDeactivateLocalizationMode, mbReset, mMutexReset, setterPc,
                 lmStopRequested, lmStopped, mbOnlyTracking, lastOp, published,
                 callLog, pendingAtStart, applied>>
  /\ UNCHANGED <<owed, savedAgain, auxVars>>

\* if (mbActivateLocalizationMode) { mpLocalMapper->RequestStop(); ...
CheckActivate ==
  /\ UNCHANGED <<shutdownVars, loadVars>>
  /\ fgPc = "checkActivate"
  /\ IF mbActivateLocalizationMode
       THEN /\ lmStopRequested' = TRUE
            /\ callLog' = Append(callLog, "RequestStop")
            /\ fgPc' = "waitStopped"
       ELSE /\ fgPc' = "checkDeactivate"
            /\ UNCHANGED <<lmStopRequested, callLog>>
  /\ UNCHANGED <<mSensor, entry, calls, mbActivateLocalizationMode,
                 mbDeactivateLocalizationMode, mbReset, mMutexMode, mMutexReset,
                 setterPc, lmStopped, mbOnlyTracking, lastOp, published,
                 pendingAtStart, applied>>
  /\ owed' = owed \ {"activate"}
  /\ UNCHANGED <<savedAgain, auxVars>>

\* (the polling loop left out: the call goes on without isStopped() being true)
WaitStopped_NoPoll ==
  /\ UNCHANGED <<shutdownVars, loadVars>>
  /\ fgPc = "waitStopped"
  /\ fgPc' = "informActivate"
  /\ UNCHANGED <<mSensor, entry, calls, mbActivateLocalizationMode,
                 mbDeactivateLocalizationMode, mbReset, mMutexMode, mMutexReset,
                 setterPc, lmStopRequested, lmStopped, mbOnlyTracking, lastOp,
                 published, callLog, pendingAtStart, applied>>
  /\ UNCHANGED <<owed, savedAgain, auxVars>>

\* while (!mpLocalMapper->isStopped()) usleep(1000);
WaitStopped ==
  /\ UNCHANGED <<shutdownVars, loadVars>>
  /\ fgPc = "waitStopped"
  /\ lmStopped
  /\ callLog' = Append(callLog, "isStopped")
  /\ fgPc' = "informActivate"
  /\ UNCHANGED <<mSensor, entry, calls, mbActivateLocalizationMode,
                 mbDeactivateLocalizationMode, mbReset, mMutexMode, mMutexReset,
                 setterPc, lmStopRequested, lmStopped, mbOnlyTracking, lastOp,
                 published, pendingAtStart, applied>>
  /\ UNCHANGED <<owed, savedAgain, auxVars>>

\* mpTracker->InformOnlyTracking(..); mbActivateLocalizationMode = false;
InformActivate ==
  /\ UNCHANGED <<shutdownVars, loadVars>>
  /\ fgPc = "informActivate"
  /\ mbOnlyTracking' = ActivateInformValue(entry)
  /\ lastOp' = TrackerOp("InformOnlyTracking", "fg")
  /\ mbActivateLocalizationMode' = FALSE
  /\ callLog' = Append(callLog, "InformOnlyTracking")
  /\ applied' = applied \cup {"activate"}
  /\ fgPc' = "checkDeactivate"
  /\ UNCHANGED <<mSensor, entry, calls, mbDeactivateLocalizationMode, mbReset,
                 mMutexMode, mMutexReset, setterPc, lmStopRequested, lmStopped,
                 published, pendingAtStart>>
  /\ UNCHANGED <<owed, savedAgain, auxVars>>

\* if (mbDeactivateLocalizationMode) {...} and the end of the mode block
CheckDeactivate_ElseIf ==
  /\ UNCHANGED <<shutdownVars, loadVars>>
  /\ fgPc = "checkDeactivate"
  /\ IF mbDeactivateLocalizationMode /\ "activate" \notin applied
       THEN /\ mbOnlyTracking' = FALSE
            /\ lastOp' = TrackerOp("InformOnlyTracking", "fg")
            /\ lmStopped' = FALSE
            /\ lmStopRequested' = FALSE
            /\ mbDeactivateLocalizationMode' = FALSE
            /\ callLog' = callLog \o <<"InformOnlyTracking", "Release">>
            /\ applied' = applied \cup {"deactivate"}
       ELSE UNCHANGED <<mbOnlyTracking, lastOp, lmStopped, lmStopRequested,
                        mbDeactivateLocalizationMode, callLog, applied>>
  /\ mMutexMode' = "free"
  /\ fgPc' = "lockReset"
  /\ UNCHANGED <<mSensor, entry, calls, mbActivateLocalizationMode, mbReset,
                 mMutexReset, setterPc, published, pendingAtStart>>
  /\ owed' = owed \ {"deactivate"}
  /\ UNCHANGED <<savedAgain, auxVars>>

CheckDeactivate ==
  /\ UNCHANGED <<shutdownVars, loadVars>>
  /\ fgPc = "checkDeactivate"
  /\ IF mbDeactivateLocalizationMode
       THEN /\ mbOnlyTracking' = FALSE
            /\ lastOp' = TrackerOp("InformOnlyTracking", "fg")
            /\ lmStopped' = FALSE
            /\ lmStopRequested' = FALSE
            /\ mbDeactivateLocalizationMode' = FALSE
            /\ callLog' = callLog \o <<"InformOnlyTracking", "Release">>
            /\ applied' = applied \cup {"deactivate"}
       ELSE UNCHANGED <<mbOnlyTracking, lastOp, lmStopped, lmStopRequested,
                        mbDeactivateLocalizationMode, callLog, applied>>
  /\ mMutexMode' = "free"
  /\ fgPc' = "lockReset"
  /\ UNCHANGED <<mSensor, entry, calls, mbActivateLocalizationMode, mbReset,
                 mMutexReset, setterPc, published, pendingAtStart>>
  /\ owed' = owed \ {"deactivate"}
  /\ UNCHANGED <<savedAgain, auxVars>>

\* unique_lock<mutex> lock(mMutexReset)
LockReset ==
  /\ UNCHANGED <<shutdownVars, loadVars>>
  /\ fgPc = "lockReset"
  /\ mMutexReset = "free"
  /\ mMutexReset' = "fg"
  /\ fgPc' = "checkReset"
  /\ UNCHANGED <<mSensor, entry, calls, mbActivateLocalizationMode,
                 mbDeactivateLocalizationMode, mbReset, mMutexMode, setterPc,
                 lmStopRequested, lmStopped, mbOnlyTracking, lastOp, published,
                 callLog, pendingAtStart, applied>>
  /\ UNCHANGED <<owed, savedAgain, auxVars>>

\* if (mbReset) { mpTracker->Reset(); mbReset = false; } and the end of the block
CheckReset ==
  /\ UNCHANGED <<shutdownVars, loadVars>>
  /\ fgPc = "checkReset"
  /\ IF mbReset
       THEN /\ lastOp' = TrackerOp("Reset", "fg")
            /\ mbReset' = FALSE
            /\ callLog' = Append(callLog, "Reset")
            /\ applied' = applied \cup {"reset"}
       ELSE UNCHANGED <<lastOp, mbReset, callLog, applied>>
  /\ mMutexReset' = "free"
  /\ fgPc' = "grab"
  /\ UNCHANGED <<mSensor, entry, calls, mbActivateLocalizationMode,
                 mbDeactivateLocalizationMode, mMutexMode, setterPc,
                 lmStopRequested, lmStopped, mbOnlyTracking, published,
                 pendingAtStart>>
  /\ owed' = owed \ {"reset"}
  /\ UNCHANGED <<savedAgain, auxVars>>

\* cv::Mat Tcw = mpTracker->GrabImage*(...): the frame is processed
GrabImage ==
  /\ UNCHANGED <<shutdownVars, loadVars>>
  /\ fgPc = "grab"
  /\ callLog' = Append(callLog, "GrabImage")
  /\ fgPc' = "publish"
  /\ UNCHANGED <<mSensor, entry, calls, mbActivateLocalizationMode,
                 mbDeactivateLocalizationMode, mbReset, mMutexMode, mMutexReset,
                 setterPc, lmStopRequested, lmStopped, mbOnlyTracking, lastOp,
                 published, pendingAtStart, applied>>
  /\ UNCHANGED <<owed, savedAgain, auxVars>>

\* lock2(mMutexState); the three published values are copied; return Tcw
Publish ==
  /\ UNCHANGED <<shutdownVars, loadVars>>
  /\ fgPc = "publish"
  /\ published' = [state |-> calls, mapPoints |-> calls, keyPoints |-> calls]
  /\ fgPc' = "idle"
  /\ UNCHANGED <<mSensor, entry, calls, mbActivateLocalizationMode,
                 mbDeactivateLocalizationMode, mbReset, mMutexMode, mMutexReset,
                 setterPc, lmStopRequested, lmStopped, mbOnlyTracking, lastOp,
                 callLog, pendingAtStart, applied>>
  /\ UNCHANGED <<owed, savedAgain, auxVars>>

\* ------------------------------------------------------------------ setters
\* A thread enters one of the setters and reaches its lock.
SetterCall(t, op) ==
  /\ UNCHANGED <<shutdownVars, loadVars>>
  /\ fgPc # "exit"
  /\ setterPc[t] = "idle"
  /\ setterPc' = [setterPc EXCEPT ![t] = op]
  /\ UNCHANGED <<mSensor, fgPc, entry, calls, mbActivateLocalizationMode,
                 mbDeactivateLocalizationMode, mbReset, mMutexMode, mMutexReset,
                 lmStopRequested, lmStopped, mbOnlyTracking, lastOp, published,
                 callLog, pendingAtStart, applied>>
  /\ UNCHANGED <<owed, savedAgain, auxVars>>

\* (the flag written without taking mMutexMode)
ActivateLocalizationMode_NoLock(t) ==
  /\ UNCHANGED <<shutdownVars, loadVars>>
  /\ fgPc # "exit"
  /\ setterPc[t] = "Activate"
  /\ mbActivateLocalizationMode' = TRUE
  /\ setterPc' = [setterPc EXCEPT ![t] = "idle"]
  /\ UNCHANGED <<mSensor, fgPc, entry, calls, mbDeactivateLocalizationMode,
                 mbReset, mMutexMode, mMutexReset, lmStopRequested, lmStopped,
                 mbOnlyTracking, lastOp, published, callLog, pendingAtStart,
                 applied>>
  /\ owed' = owed \cup {"activate"}
  /\ UNCHANGED <<savedAgain, auxVars>>

ActivateLocalizationMode(t) ==
  /\ UNCHANGED <<shutdownVars, loadVars>>
  /\ fgPc # "exit"
  /\ setterPc[t] = "Activate"
  /\ mMutexMode = "free"
  /\ mbActivateLocalizationMode' = TRUE
  /\ setterPc' = [setterPc EXCEPT ![t] = "idle"]
  /\ UNCHANGED <<mSensor, fgPc, entry, calls, mbDeactivateLocalizationMode,
                 mbReset, mMutexMode, mMutexReset, lmStopRequested, lmStopped,
                 mbOnlyTracking, lastOp, published, callLog, pendingAtStart,
                 applied>>
  /\ owed' = owed \cup {"activate"}
  /\ UNCHANGED <<savedAgain, auxVars>>

DeactivateLocalizationMode(t) ==
  /\ UNCHANGED <<shutdownVars, loadVars>>
  /\ fgPc # "exit"
  /\ setterPc[t] = "Deactivate"
  /\ mMutexMode = "free"
  /\ mbDeactivateLocalizationMode' = TRUE
  /\ setterPc' = [setterPc EXCEPT ![t] = "idle"]
  /\ UNCHANGED <<mSensor, fgPc, entry, calls, mbActivateLocalizationMode,
                 mbReset, mMutexMode, mMutexReset, lmStopRequested, lmStopped,
                 mbOnlyTracking, lastOp, published, callLog, pendingAtStart,
                 applied>>
  /\ owed' = owed \cup {"deactivate"}
  /\ UNCHANGED <<savedAgain, auxVars>>

Reset_Direct(t) ==
  /\ UNCHANGED <<shutdownVars, loadVars>>
  /\ fgPc # "exit"
  /\ setterPc[t] = "Reset"
  /\ mMutexReset = "free"
  /\ lastOp' = TrackerOp("Reset", "setter")
  /\ setterPc' = [setterPc EXCEPT ![t] = "idle"]
  /\ UNCHANGED <<mSensor, fgPc, entry, calls, mbActivateLocalizationMode,
                 mbDeactivateLocalizationMode, mbReset, mMutexMode, mMutexReset,
                 lmStopRequested, lmStopped, mbOnlyTracking, published, callLog,
                 pendingAtStart, applied>>
  /\ UNCHANGED <<owed, savedAgain, auxVars>>

Reset(t) ==
  /\ UNCHANGED <<shutdownVars, loadVars>>
  /\ fgPc # "exit"
  /\ setterPc[t] = "Reset"
  /\ mMutexReset = "free"
  /\ mbReset' = TRUE
  /\ setterPc' = [setterPc EXCEPT ![t] = "idle"]
  /\ UNCHANGED <<mSensor, fgPc, entry, calls, mbActivateLocalizationMode,
                 mbDeactivateLocalizationMode, mMutexMode, mMutexReset,
                 lmStopRequested, lmStopped, mbOnlyTracking, lastOp, published,
                 callLog, pendingAtStart, applied>>
  /\ owed' = owed \cup {"reset"}
  /\ UNCHANGED <<savedAgain, auxVars>>

\* ----------------------------------------------------------- mapping worker
\* The mapping worker honours a stop request.
LocalMappingStop ==
  /\ UNCHANGED <<shutdownVars, loadVars>>
  /\ lmThread
  /\ fgPc # "exit"
  /\ lmStopRequested
  /\ ~lmStopped
  /\ lmStopped' = TRUE
  /\ UNCHANGED <<mSensor, fgPc, entry, calls, mbActivateLocalizationMode,
                 mbDeactivateLocalizationMode, mbReset, mMutexMode, mMutexReset,
                 setterPc, lmStopRequested, mbOnlyTracking, lastOp, published,
                 callLog, pendingAtStart, applied>>
  /\ UNCHANGED <<owed, savedAgain, auxVars>>

\* The tracking side at rest between two tracking calls, with the mapping
\* worker running (mapping mode) or stopped (localization-only mode).
QuietTrackOn(sensor, stopped) ==
  /\ mSensor = sensor
  /\ fgPc = "idle"
  /\ entry = "none"
  /\ calls = 0
  /\ mbActivateLocalizationMode = FALSE
  /\ mbDeactivateLocalizationMode = FALSE
  /\ mbReset = FALSE
  /\ mMutexMode = "free"
  /\ mMutexReset = "free"
  /\ setterPc = [t \in Setters |-> "idle"]
  /\ lmStopRequested = stopped
  /\ lmStopped = stopped
  /\ mbOnlyTracking = stopped
  /\ lastOp = [op |-> "none", thread |-> "none", inGrab |-> FALSE]
  /\ published = [state |-> 0, mapPoints |-> 0, keyPoints |-> 0]
  /\ callLog = <<>>
  /\ pendingAtStart = {}
  /\ applied = {}
  /\ owed = {}

QuietTrack(stopped) == QuietTrackOn("MONOCULAR", stopped)

\* ----------------------------------------------------------------- Shutdown
QuietShutdown ==
  /\ sdPc = "idle"
  /\ sdCalls = 0
  /\ mpViewer = FALSE
  /\ lmFinishRequested = FALSE
  /\ lmFinished = FALSE
  /\ lcFinishRequested = FALSE
  /\ lcFinished = FALSE
  /\ gbaRunning = FALSE
  /\ vFinishRequested = FALSE
  /\ vFinished = FALSE

InitShutdown ==
  /\ sdPc = "idle"
  /\ sdCalls = 0
  /\ mpViewer \in BOOLEAN
  /\ lmFinishRequested = FALSE
  /\ lmFinished = FALSE
  /\ lcFinishRequested = FALSE
  /\ lcFinished = FALSE
  /\ gbaRunning = FALSE
  /\ vFinishRequested = FALSE
  /\ vFinished = FALSE

\* mpLocalMapper->RequestFinish();
SdRequestFinishLM ==
  /\ sdPc = "idle"
  /\ sdCalls < MaxShutdowns
  /\ lmFinishRequested' = TRUE
  /\ sdPc' = "requestLC"
  /\ UNCHANGED <<sdCalls, mpViewer, lmFinished, lcFinishRequested, lcFinished,
                 gbaRunning, vFinishRequested, vFinished>>
  /\ UNCHANGED <<trackVars, loadVars>>
  /\ UNCHANGED <<owed, savedAgain, auxVars>>

\* mpLoopCloser->RequestFinish();
SdRequestFinishLC ==
  /\ sdPc = "requestLC"
  /\ lcFinishRequested' = TRUE
  /\ sdPc' = "checkViewer"
  /\ UNCHANGED <<sdCalls, mpViewer, lmFinishRequested, lmFinished, lcFinished,
                 gbaRunning, vFinishRequested, vFinished>>
  /\ UNCHANGED <<trackVars, loadVars>>
  /\ UNCHANGED <<owed, savedAgain, auxVars>>

\* (the viewer left for later: the call goes straight to the wait for the workers)
SdViewerRequest_Skip ==
  /\ sdPc = "checkViewer"
  /\ sdPc' = "readLM"
  /\ UNCHANGED <<sdCalls, mpViewer, lmFinishRequested, lmFinished,
                 lcFinishRequested, lcFinished, gbaRunning, vFinishRequested,
                 vFinished>>
  /\ UNCHANGED <<trackVars, loadVars>>
  /\ UNCHANGED <<owed, savedAgain, auxVars>>

\* if (mpViewer) { mpViewer->RequestFinish(); ...
SdViewerRequest ==
  /\ sdPc = "checkViewer"
  /\ IF mpViewer
       THEN vFinishRequested' = TRUE /\ sdPc' = "waitViewer"
       ELSE vFinishRequested' = vFinishRequested /\ sdPc' = "readLM"
  /\ UNCHANGED <<sdCalls, mpViewer, lmFinishRequested, lmFinished,
                 lcFinishRequested, lcFinished, gbaRunning, vFinished>>
  /\ UNCHANGED <<trackVars, loadVars>>
  /\ UNCHANGED <<owed, savedAgain, auxVars>>

\* while (!mpViewer->isFinished()) usleep(5000);
SdViewerWait ==
  /\ sdPc = "waitViewer"
  /\ vFinished
  /\ sdPc' = "readLM"
  /\ UNCHANGED <<sdCalls, mpViewer, lmFinishRequested, lmFinished,
                 lcFinishRequested, lcFinished, gbaRunning, vFinishRequested,
                 vFinished>>
  /\ UNCHANGED <<trackVars, loadVars>>
  /\ UNCHANGED <<owed, savedAgain, auxVars>>

\* while (!mpLocalMapper->isFinished() || ...: first operand; true means sleep
\* and evaluate the condition again
SdReadLM ==
  /\ sdPc = "readLM"
  /\ lmFinished
  /\ sdPc' = "readLC"
  /\ UNCHANGED <<sdCalls, mpViewer, lmFinishRequested, lmFinished,
                 lcFinishRequested, lcFinished, gbaRunning, vFinishRequested,
                 vFinished>>
  /\ UNCHANGED <<trackVars, loadVars>>
  /\ UNCHANGED <<owed, savedAgain, auxVars>>

\* (the loop-closing operand left out of the condition)
SdReadLC_NoCheck ==
  /\ sdPc = "readLC"
  /\ sdPc' = "readGBA"
  /\ UNCHANGED <<sdCalls, mpViewer, lmFinishRequested, lmFinished,
                 lcFinishRequested, lcFinished, gbaRunning, vFinishRequested,
                 vFinished>>
  /\ UNCHANGED <<trackVars, loadVars>>
  /\ UNCHANGED <<owed, savedAgain, auxVars>>

\* ... || !mpLoopCloser->isFinished() || ...: second operand
SdReadLC ==
  /\ sdPc = "readLC"
  /\ sdPc' = IF lcFinished THEN "readGBA" ELSE "readLM"
  /\ UNCHANGED <<sdCalls, mpViewer, lmFinishRequested, lmFinished,
                 lcFinishRequested, lcFinished, gbaRunning, vFinishRequested,
                 vFinished>>
  /\ UNCHANGED <<trackVars, loadVars>>
  /\ UNCHANGED <<owed, savedAgain, auxVars>>

\* (the isRunningGBA operand left out of the condition)
SdReadGBA_NoCheck ==
  /\ sdPc = "readGBA"
  /\ sdPc' = "idle"
  /\ sdCalls' = sdCalls + 1
  /\ UNCHANGED <<mpViewer, lmFinishRequested, lmFinished, lcFinishRequested,
                 lcFinished, gbaRunning, vFinishRequested, vFinished>>
  /\ UNCHANGED <<trackVars, loadVars>>
  /\ UNCHANGED <<owed, savedAgain, auxVars>>

\* ... || mpLoopCloser->isRunningGBA()): third operand; false ends the loop
\* and Shutdown returns
SdReadGBA ==
  /\ sdPc = "readGBA"
  /\ IF gbaRunning
       THEN sdPc' = "readLM" /\ sdCalls' = sdCalls
       ELSE sdPc' = "idle" /\ sdCalls' = sdCalls + 1
  /\ UNCHANGED <<mpViewer, lmFinishRequested, lmFinished, lcFinishRequested,
                 lcFinished, gbaRunning, vFinishRequested, vFinished>>
  /\ UNCHANGED <<trackVars, loadVars>>
  /\ UNCHANGED <<owed, savedAgain, auxVars>>

\* The mapping worker leaves its loop once finish was requested.
LocalMappingFinish ==
  /\ lmFinishRequested
  /\ ~lmFinished
  /\ lmFinished' = TRUE
  /\ UNCHANGED <<sdPc, sdCalls, mpViewer, lmFinishRequested, lcFinishRequested,
                 lcFinished, gbaRunning, vFinishRequested, vFinished>>
  /\ UNCHANGED <<trackVars, loadVars>>
  /\ UNCHANGED <<owed, savedAgain, auxVars>>

\* The loop-closing worker leaves its loop once finish was requested.
LoopClosingFinish ==
  /\ lcFinishRequested
  /\ ~lcFinished
  /\ lcFinished' = TRUE
  /\ UNCHANGED <<sdPc, sdCalls, mpViewer, lmFinishRequested, lmFinished,
                 lcFinishRequested, gbaRunning, vFinishRequested, vFinished>>
  /\ UNCHANGED <<trackVars, loadVars>>
  /\ UNCHANGED <<owed, savedAgain, auxVars>>

\* The loop-closing worker, while it runs, launches a global optimization pass.
GBAStart ==
  /\ ~lcFinished
  /\ ~gbaRunning
  /\ gbaRunning' = TRUE
  /\ UNCHANGED <<sdPc, sdCalls, mpViewer, lmFinishRequested, lmFinished,
                 lcFinishRequested, lcFinished, vFinishRequested, vFinished>>
  /\ UNCHANGED <<trackVars, loadVars>>
  /\ UNCHANGED <<owed, savedAgain, auxVars>>

\* The global optimization pass ends.
GBAEnd ==
  /\ gbaRunning
  /\ gbaRunning' = FALSE
  /\ UNCHANGED <<sdPc, sdCalls, mpViewer, lmFinishRequested, lmFinished,
                 lcFinishRequested, lcFinished, vFinishRequested, vFinished>>
  /\ UNCHANGED <<trackVars, loadVars>>
  /\ UNCHANGED <<owed, savedAgain, auxVars>>

\* The visualization worker leaves its loop once finish was requested.
ViewerFinish ==
  /\ vFinishRequested
  /\ ~vFinished
  /\ vFinished' = TRUE
  /\ UNCHANGED <<sdPc, sdCalls, mpViewer, lmFinishRequested, lmFinished,
                 lcFinishRequested, lcFinished, gbaRunning, vFinishRequested>>
  /\ UNCHANGED <<trackVars, loadVars>>
  /\ UNCHANGED <<owed, savedAgain, auxVars>>

NextShutdown ==
  \/ SdRequestFinishLM
  \/ SdRequestFinishLC
  \/ SdViewerRequest
  \/ SdViewerWait
  \/ SdReadLM
  \/ SdReadLC
  \/ SdReadGBA
  \/ LocalMappingFinish
  \/ LoopClosingFinish
  \/ GBAStart
  \/ GBAEnd
  \/ ViewerFinish

NextTrack ==
  \/ \E e \in EntryPoints : TrackBegin(e)
  \/ LockMode
  \/ CheckActivate
  \/ WaitStopped
  \/ InformActivate
  \/ CheckDeactivate
  \/ LockReset
  \/ CheckReset
  \/ GrabImage
  \/ Publish
  \/ \E t \in Setters, op \in SetterOps : SetterCall(t, op)
  \/ \E t \in Setters : ActivateLocalizationMode(t)
  \/ \E t \in Setters : DeactivateLocalizationMode(t)
  \/ \E t \in Setters : Reset(t)
  \/ LocalMappingStop

\* ------------------------------------------------- map objects and the store
EmptySlots == [i \in SlotIds |-> Null]
EmptyObs == [k \in KFIds |-> Null]
NoBad(S) == [x \in S |-> FALSE]
NoSlots == [k \in KFIds |-> EmptySlots]
NoObs == [p \in MPIds |-> EmptyObs]
\* A snapshot file: the two pointer sequences (Null for a null pointer) and
\* the objects they and the objects' cross-references point to.
NoFile ==
  [status |-> "missing", kfs |-> <<>>, mps |-> <<>>, kfBad |-> NoBad(KFIds),
   kfSlots |-> NoSlots, mpBad |-> NoBad(MPIds), mpObs |-> NoObs]

\* Slot arrays in which a landmark sits in at most one slot of a keyframe.
SlotMaps ==
  {f \in [SlotIds -> MPIds \cup {Null}] :
     \A i, j \in SlotIds : (i # j /\ f[i] # Null) => f[i] # f[j]}

\* The observation maps that mirror the slot arrays (p observed by k at i
\* exactly when k's slot i holds p).
ObsOf(slots) ==
  [p \in MPIds |->
     [k \in KFIds |->
        IF \E i \in SlotIds : slots[k][i] = p
          THEN CHOOSE i \in SlotIds : slots[k][i] = p
          ELSE Null]]

\* (the comparison reversed)
RECURSIVE SortById_Descending(_)
SortById_Descending(S) ==
  IF S = {} THEN <<>>
  ELSE LET m == CHOOSE x \in S : \A y \in S : x >= y
       IN <<m>> \o SortById_Descending(S \ {m})

\* KeyFrame::lId order: ascending mnId.
RECURSIVE SortById(_)
SortById(S) ==
  IF S = {} THEN <<>>
  ELSE LET m == CHOOSE x \in S : \A y \in S : x <= y
       IN <<m>> \o SortById(S \ {m})

\* The orders in which a set can be iterated.
RECURSIVE Orders(_)
Orders(S) ==
  IF S = {} THEN {<<>>}
  ELSE UNION {{<<x>> \o r : r \in Orders(S \ {x})} : x \in S}

Range(seq) == {seq[i] : i \in 1..Len(seq)}

\* MapPoint::AddObservation(pKF, idx)
AddObservation(obs, p, k, i) == [obs EXCEPT ![p][k] = i]

\* The threads of the process run only while it is alive.
LoadAlive == loadPc # "crashed" /\ ctorPc \notin {"exit", "threw"}

\* The state of the earlier run whose map is saved: a populated store.
InitLoad ==
  /\ ctorPc = "earlier"
  /\ mbOnlyRelocalization = FALSE
  /\ mMapFile = ""
  /\ bUseViewer = FALSE
  /\ lmThread = FALSE
  /\ lcThread = FALSE
  /\ viewerThread = FALSE
  /\ mapFile = NoFile
  /\ loadPc = "none"
  /\ vpKFs = <<>>
  /\ vMapPoints = <<>>
  /\ kfBad \in [KFIds -> BOOLEAN]
  /\ mpBad \in [MPIds -> BOOLEAN]
  /\ kfSlots \in [KFIds -> SlotMaps]
  /\ mpObs = ObsOf(kfSlots)
  /\ mspKeyFrames = KFIds
  /\ mspMapPoints = MPIds
  /\ kfDB = KFIds
  /\ installOrder = <<>>
  /\ count = 0
  /\ is_finished = FALSE
  /\ p1Pc = "none"
  /\ p1Idx = 0
  /\ p2Pc = "none"
  /\ p2Idx = 0
  /\ ucIdx = 0
  /\ ucVisited = <<>>
  /\ mpFinalized = {}
  /\ savedAgain = NoFile

Constructed(bad, store) ==
  /\ ctorPc = "done"
  /\ mbOnlyRelocalization = FALSE
  /\ mMapFile = ""
  /\ bUseViewer = FALSE
  /\ lmThread = TRUE
  /\ lcThread = TRUE
  /\ viewerThread = FALSE
  /\ mapFile = NoFile
  /\ loadPc = "none"
  /\ vpKFs = <<>>
  /\ vMapPoints = <<>>
  /\ kfBad = bad
  /\ mpBad = NoBad(MPIds)
  /\ kfSlots = NoSlots
  /\ mpObs = NoObs
  /\ mspKeyFrames = store
  /\ mspMapPoints = {}
  /\ kfDB = store
  /\ installOrder = <<>>
  /\ count = 0
  /\ is_finished = FALSE
  /\ p1Pc = "none"
  /\ p1Idx = 0
  /\ p2Pc = "none"
  /\ p2Idx = 0
  /\ ucIdx = 0
  /\ ucVisited = <<>>
  /\ mpFinalized = {}
  /\ savedAgain = NoFile

\* The constructed system with an empty store.
QuietLoad == Constructed(NoBad(KFIds), {})

\* ------------------------------------------------------------------ SaveMap
\* SaveMap(filename): keyframes sorted by id, then the landmarks in the
\* store's iteration order; exit(-1) when the file cannot be written.
SaveMap ==
  /\ ctorPc = "earlier"
  /\ \/ /\ ctorPc' = "exit"
        /\ mapFile' = mapFile
     \/ /\ ctorPc' = "saved"
        /\ \E order \in Orders(mspMapPoints) :
             mapFile' = [status |-> "ok", kfs |-> SortById(mspKeyFrames),
                         mps |-> order, kfBad |-> kfBad, kfSlots |-> kfSlots,
                         mpBad |-> mpBad, mpObs |-> mpObs]
  /\ UNCHANGED <<mbOnlyRelocalization, mMapFile, bUseViewer, lmThread, lcThread,
                 viewerThread, loadPc, vpKFs, vMapPoints, kfBad, mpBad, kfSlots,
                 mpObs, mspKeyFrames, mspMapPoints, kfDB, installOrder, count,
                 is_finished, p1Pc, p1Idx, p2Pc, p2Idx, ucIdx, ucVisited,
                 mpFinalized>>
  /\ UNCHANGED <<trackVars, shutdownVars>>
  /\ UNCHANGED <<owed, savedAgain, auxVars>>

\* Between the two runs the file is truncated or damaged.
FileDamaged ==
  /\ ctorPc = "saved"
  /\ mapFile.status = "ok"
  /\ mapFile' = [NoFile EXCEPT !.status = "corrupt"]
  /\ UNCHANGED <<ctorPc, mbOnlyRelocalization, mMapFile, bUseViewer, lmThread,
                 lcThread, viewerThread, loadPc, vpKFs, vMapPoints, kfBad, mpBad,
                 kfSlots, mpObs, mspKeyFrames, mspMapPoints, kfDB, installOrder,
                 count, is_finished, p1Pc, p1Idx, p2Pc, p2Idx, ucIdx, ucVisited,
                 mpFinalized>>
  /\ UNCHANGED <<trackVars, shutdownVars>>
  /\ UNCHANGED <<owed, savedAgain, auxVars>>

\* Between the two runs the file is removed or made unreadable.
FileRemoved ==
  /\ ctorPc = "saved"
  /\ mapFile.status = "ok"
  /\ mapFile' = NoFile
  /\ UNCHANGED <<ctorPc, mbOnlyRelocalization, mMapFile, bUseViewer, lmThread,
                 lcThread, viewerThread, loadPc, vpKFs, vMapPoints, kfBad, mpBad,
                 kfSlots, mpObs, mspKeyFrames, mspMapPoints, kfDB, installOrder,
                 count, is_finished, p1Pc, p1Idx, p2Pc, p2Idx, ucIdx, ucVisited,
                 mpFinalized>>
  /\ UNCHANGED <<trackVars, shutdownVars>>
  /\ UNCHANGED <<owed, savedAgain, auxVars>>

\* The file comes from another writer: a well-formed stream in which an entry
\* of the keyframe sequence is a null pointer.
ForeignNullKeyFrame(i) ==
  /\ ctorPc = "saved"
  /\ mapFile.status = "ok"
  /\ i \in 1..Len(mapFile.kfs)
  /\ mapFile.kfs[i] # Null
  /\ mapFile' = [mapFile EXCEPT !.kfs[i] = Null]
  /\ UNCHANGED <<ctorPc, mbOnlyRelocalization, mMapFile, bUseViewer, lmThread,
                 lcThread, viewerThread, loadPc, vpKFs, vMapPoints, kfBad, mpBad,
                 kfSlots, mpObs, mspKeyFrames, mspMapPoints, kfDB, installOrder,
                 count, is_finished, p1Pc, p1Idx, p2Pc, p2Idx, ucIdx, ucVisited,
                 mpFinalized>>
  /\ UNCHANGED <<trackVars, shutdownVars>>
  /\ UNCHANGED <<owed, savedAgain, auxVars>>

\* The same for an entry of the landmark sequence.
ForeignNullMapPoint(i) ==
  /\ ctorPc = "saved"
  /\ mapFile.status = "ok"
  /\ i \in 1..Len(mapFile.mps)
  /\ mapFile.mps[i] # Null
  /\ mapFile' = [mapFile EXCEPT !.mps[i] = Null]
  /\ UNCHANGED <<ctorPc, mbOnlyRelocalization, mMapFile, bUseViewer, lmThread,
                 lcThread, viewerThread, loadPc, vpKFs, vMapPoints, kfBad, mpBad,
                 kfSlots, mpObs, mspKeyFrames, mspMapPoints, kfDB, installOrder,
                 count, is_finished, p1Pc, p1Idx, p2Pc, p2Idx, ucIdx, ucVisited,
                 mpFinalized>>
  /\ UNCHANGED <<trackVars, shutdownVars>>
  /\ UNCHANGED <<owed, savedAgain, auxVars>>

\* -------------------------------------------------------------- constructor
\* SetSlamParams: the three flags and the map path come from the settings file
\* (left as they were when the file cannot be opened).
SetSlamParams ==
  /\ ctorPc = "saved"
  /\ mbActivateLocalizationMode' \in BOOLEAN
  /\ mbDeactivateLocalizationMode' \in BOOLEAN
  /\ mbOnlyRelocalization' \in BOOLEAN
  /\ mMapFile' \in {"", "map.bin"}
  /\ ctorPc' = "vocabulary"
  /\ UNCHANGED <<bUseViewer, lmThread, lcThread, viewerThread, mapFile,
                 loadPc, vpKFs, vMapPoints, kfBad, mpBad, kfSlots, mpObs,
                 mspKeyFrames, mspMapPoints, kfDB, installOrder, count,
                 is_finished, p1Pc, p1Idx, p2Pc, p2Idx, ucIdx, ucVisited,
                 mpFinalized>>
  /\ UNCHANGED <<mSensor, fgPc, entry, calls, mbReset, mMutexMode, mMutexReset,
                 setterPc, lmStopRequested, lmStopped, mbOnlyTracking, lastOp,
                 published, callLog, pendingAtStart, applied>>
  /\ UNCHANGED shutdownVars
  /\ owed' = (IF mbActivateLocalizationMode' THEN {"activate"} ELSE {})
               \cup (IF mbDeactivateLocalizationMode' THEN {"deactivate"} ELSE {})
  /\ UNCHANGED <<savedAgain, auxVars>>

\* The vocabulary is loaded (exit(-1) on failure); the keyframe database, the
\* empty Map, the drawers and the tracker are created.
CtorCreate ==
  /\ ctorPc = "vocabulary"
  /\ \/ /\ ctorPc' = "exit"
        /\ UNCHANGED <<kfBad, mpBad, kfSlots, mpObs, mspKeyFrames, mspMapPoints, kfDB>>
     \/ /\ ctorPc' = "startLM"
        /\ kfBad' = NoBad(KFIds)
        /\ mpBad' = NoBad(MPIds)
        /\ kfSlots' = NoSlots
        /\ mpObs' = NoObs
        /\ mspKeyFrames' = {}
        /\ mspMapPoints' = {}
        /\ kfDB' = {}
  /\ UNCHANGED <<mbOnlyRelocalization, mMapFile, bUseViewer, lmThread,
                 lcThread, viewerThread, mapFile, loadPc, vpKFs, vMapPoints,
                 installOrder, count, is_finished, p1Pc, p1Idx, p2Pc, p2Idx,
                 ucIdx, ucVisited, mpFinalized>>
  /\ UNCHANGED <<trackVars, shutdownVars>>
  /\ UNCHANGED <<owed, savedAgain, auxVars>>

\* mptLocalMapping = new thread(&LocalMapping::Run, mpLocalMapper);
CtorStartLocalMapping ==
  /\ ctorPc = "startLM"
  /\ lmThread' = TRUE
  /\ ctorPc' = "startLC"
  /\ UNCHANGED <<mbOnlyRelocalization, mMapFile, bUseViewer, lcThread,
                 viewerThread, mapFile, loadPc, vpKFs, vMapPoints, kfBad,
                 mpBad, kfSlots, mpObs, mspKeyFrames, mspMapPoints, kfDB,
                 installOrder, count, is_finished, p1Pc, p1Idx, p2Pc, p2Idx,
                 ucIdx, ucVisited, mpFinalized>>
  /\ UNCHANGED <<trackVars, shutdownVars>>
  /\ UNCHANGED <<owed, savedAgain, auxVars>>

\* mptLoopClosing = new thread(&LoopClosing::Run, mpLoopCloser);
CtorStartLoopClosing ==
  /\ ctorPc = "startLC"
  /\ lcThread' = TRUE
  /\ ctorPc' = "checkReloc"
  /\ UNCHANGED <<mbOnlyRelocalization, mMapFile, bUseViewer, lmThread,
                 viewerThread, mapFile, loadPc, vpKFs, vMapPoints, kfBad,
                 mpBad, kfSlots, mpObs, mspKeyFrames, mspMapPoints, kfDB,
                 installOrder, count, is_finished, p1Pc, p1Idx, p2Pc, p2Idx,
                 ucIdx, ucVisited, mpFinalized>>
  /\ UNCHANGED <<trackVars, shutdownVars>>
  /\ UNCHANGED <<owed, savedAgain, auxVars>>

\* if (mbOnlyRelocalization) { ... LoadMap(mMapFile) ...
CtorCheckRelocalization ==
  /\ ctorPc = "checkReloc"
  /\ IF mbOnlyRelocalization
       THEN ctorPc' = "load" /\ loadPc' = "open"
       ELSE ctorPc' = "viewer" /\ loadPc' = loadPc
  /\ UNCHANGED <<mbOnlyRelocalization, mMapFile, bUseViewer, lmThread,
                 lcThread, viewerThread, mapFile, vpKFs, vMapPoints, kfBad,
                 mpBad, kfSlots, mpObs, mspKeyFrames, mspMapPoints, kfDB,
                 installOrder, count, is_finished, p1Pc, p1Idx, p2Pc, p2Idx,
                 ucIdx, ucVisited, mpFinalized>>
  /\ UNCHANGED <<trackVars, shutdownVars>>
  /\ UNCHANGED <<owed, savedAgain, auxVars>>

\* if (LoadMap(mMapFile)) { ActivateLocalizationMode(); }
\* LoadMap has returned: its locals are gone.
CtorAfterLoad ==
  /\ ctorPc = "load"
  /\ loadPc \in {"retTrue", "retFalse"}
  /\ mbActivateLocalizationMode' =
       IF loadPc = "retTrue" THEN TRUE ELSE mbActivateLocalizationMode
  /\ ctorPc' = "viewer"
  /\ loadPc' = IF loadPc = "retTrue" THEN "loaded" ELSE "notLoaded"
  /\ vpKFs' = <<>>
  /\ vMapPoints' = <<>>
  /\ count' = 0
  /\ is_finished' = FALSE
  /\ p1Pc' = "none"
  /\ p1Idx' = 0
  /\ p2Pc' = "none"
  /\ p2Idx' = 0
  /\ ucIdx' = 0
  /\ UNCHANGED <<mbOnlyRelocalization, mMapFile, bUseViewer, lmThread, lcThread,
                 viewerThread, mapFile, kfBad, mpBad, kfSlots, mpObs,
                 mspKeyFrames, mspMapPoints, kfDB, installOrder, ucVisited,
                 mpFinalized>>
  /\ UNCHANGED <<mSensor, fgPc, entry, calls, mbDeactivateLocalizationMode,
                 mbReset, mMutexMode, mMutexReset, setterPc, lmStopRequested,
                 lmStopped, mbOnlyTracking, lastOp, published, callLog,
                 pendingAtStart, applied>>
  /\ UNCHANGED shutdownVars
  /\ owed' = IF loadPc = "retTrue" THEN owed \cup {"activate"} ELSE owed
  /\ UNCHANGED <<savedAgain, auxVars>>

\* if (bUseViewer) { mpViewer = new Viewer(..); mptViewer = new thread(..); }
\* (the argument's value is drawn where it is first read)
CtorStartViewer ==
  /\ ctorPc = "viewer"
  /\ bUseViewer' \in BOOLEAN
  /\ viewerThread' = bUseViewer'
  /\ mpViewer' = bUseViewer'
  /\ ctorPc' = "wire"
  /\ UNCHANGED <<mbOnlyRelocalization, mMapFile, lmThread, lcThread, mapFile,
                 loadPc, vpKFs, vMapPoints, kfBad, mpBad, kfSlots, mpObs,
                 mspKeyFrames, mspMapPoints, kfDB, installOrder, count,
                 is_finished, p1Pc, p1Idx, p2Pc, p2Idx, ucIdx, ucVisited,
                 mpFinalized>>
  /\ UNCHANGED <<sdPc, sdCalls, lmFinishRequested, lmFinished, lcFinishRequested,
                 lcFinished, gbaRunning, vFinishRequested, vFinished>>
  /\ UNCHANGED trackVars
  /\ UNCHANGED <<owed, savedAgain, auxVars>>

\* The back-references between tracker, mapping and loop closing are set.
CtorWire ==
  /\ ctorPc = "wire"
  /\ ctorPc' = "done"
  /\ UNCHANGED <<mbOnlyRelocalization, mMapFile, bUseViewer, lmThread,
                 lcThread, viewerThread, mapFile, loadPc, vpKFs, vMapPoints,
                 kfBad, mpBad, kfSlots, mpObs, mspKeyFrames, mspMapPoints,
                 kfDB, installOrder, count, is_finished, p1Pc, p1Idx, p2Pc,
                 p2Idx, ucIdx, ucVisited, mpFinalized>>
  /\ UNCHANGED <<trackVars, shutdownVars>>
  /\ UNCHANGED <<owed, savedAgain, auxVars>>

\* ------------------------------------------------------------------ LoadMap
\* The empty-path check and the opening of the file.
LoadMapOpen ==
  /\ loadPc = "open"
  /\ loadPc' = IF mMapFile = "" \/ mapFile.status = "missing"
                 THEN "retFalse" ELSE "decode"
  /\ UNCHANGED <<ctorPc, mbOnlyRelocalization, mMapFile, bUseViewer,
                 lmThread, lcThread, viewerThread, mapFile, vpKFs,
                 vMapPoints, kfBad, mpBad, kfSlots, mpObs, mspKeyFrames,
                 mspMapPoints, kfDB, installOrder, count, is_finished, p1Pc,
                 p1Idx, p2Pc, p2Idx, ucIdx, ucVisited, mpFinalized>>
  /\ UNCHANGED <<trackVars, shutdownVars>>
  /\ UNCHANGED <<owed, savedAgain, auxVars>>

\* ia >> vpKFs; ia >> vMapPoints; a damaged stream makes the archive throw,
\* which leaves LoadMap and the constructor.
LoadMapDecode ==
  /\ loadPc = "decode"
  /\ IF mapFile.status = "corrupt"
       THEN /\ loadPc' = "threw"
            /\ ctorPc' = "threw"
            /\ UNCHANGED <<vpKFs, vMapPoints, kfBad, mpBad, kfSlots, mpObs>>
       ELSE /\ loadPc' = "spawn1"
            /\ ctorPc' = ctorPc
            /\ vpKFs' = mapFile.kfs
            /\ vMapPoints' = mapFile.mps
            /\ kfBad' = mapFile.kfBad
            /\ kfSlots' = mapFile.kfSlots
            /\ mpBad' = mapFile.mpBad
            /\ mpObs' = mapFile.mpObs
  /\ UNCHANGED <<mbOnlyRelocalization, mMapFile, bUseViewer, lmThread,
                 lcThread, viewerThread, mapFile, mspKeyFrames, mspMapPoints,
                 kfDB, installOrder, count, is_finished, p1Pc, p1Idx, p2Pc,
                 p2Idx, ucIdx, ucVisited, mpFinalized>>
  /\ UNCHANGED <<trackVars, shutdownVars>>
  /\ UNCHANGED <<owed, savedAgain, auxVars>>

\* count = 0; is_finished = false; std::thread load_keyframe(...)
LoadMapSpawn1 ==
  /\ loadPc = "spawn1"
  /\ count' = 0
  /\ is_finished' = FALSE
  /\ p1Pc' = "run"
  /\ p1Idx' = 1
  /\ loadPc' = "poll"
  /\ UNCHANGED <<ctorPc, mbOnlyRelocalization, mMapFile, bUseViewer,
                 lmThread, lcThread, viewerThread, mapFile, vpKFs,
                 vMapPoints, kfBad, mpBad, kfSlots, mpObs, mspKeyFrames,
                 mspMapPoints, kfDB, installOrder, p2Pc, p2Idx, ucIdx,
                 ucVisited, mpFinalized>>
  /\ UNCHANGED <<trackVars, shutdownVars>>
  /\ UNCHANGED <<owed, savedAgain, auxVars>>

\* The slot loop of AddKeyFrame, from slot i on: the observations it records.
RECURSIVE AddKeyFrameObs_OffByOne(_, _, _)
AddKeyFrameObs_OffByOne(obs, k, i) ==
  IF i > NumSlots THEN obs
  ELSE LET pMP == kfSlots[k][i]
       IN AddKeyFrameObs_OffByOne(
            IF pMP = Null \/ mpBad[pMP] THEN obs
            ELSE AddObservation(obs, pMP, k, (i % NumSlots) + 1),
            k, i + 1)

RECURSIVE AddKeyFrameObs(_, _, _)
AddKeyFrameObs(obs, k, i) ==
  IF i > NumSlots THEN obs
  ELSE LET pMP == kfSlots[k][i]
       IN AddKeyFrameObs(
            IF pMP = Null \/ mpBad[pMP] THEN obs
            ELSE AddObservation(obs, pMP, k, i),
            k, i + 1)

\* The landmarks that loop registers in the Map.
AddKeyFramePoints(k) ==
  {kfSlots[k][i] : i \in {j \in SlotIds : kfSlots[k][j] # Null /\ ~mpBad[kfSlots[k][j]]}}

\* AddKeyFrame(keyframe, pMap)
AddKeyFrame(k) ==
  /\ mspKeyFrames' = mspKeyFrames \cup {k}
  /\ installOrder' = IF k \in mspKeyFrames THEN installOrder ELSE Append(installOrder, k)
  /\ kfDB' = kfDB \cup {k}
  /\ mpObs' = AddKeyFrameObs(mpObs, k, 1)
  /\ kfSlots' = [kfSlots EXCEPT ![k] =
                   [i \in SlotIds |->
                      IF kfSlots[k][i] # Null /\ ~mpBad[kfSlots[k][i]]
                        THEN kfSlots[k][i] ELSE @[i]]]
  /\ mspMapPoints' = mspMapPoints \cup AddKeyFramePoints(k)

\* LoadKeyFrames: one iteration of its loop
LoadKeyFramesStep ==
  /\ LoadAlive
  /\ p1Pc = "run"
  /\ p1Idx <= Len(vpKFs)
  /\ IF vpKFs[p1Idx] = Null \/ kfBad[vpKFs[p1Idx]]
       THEN UNCHANGED <<mspKeyFrames, installOrder, kfDB, mpObs, kfSlots,
                        mspMapPoints, count>>
       ELSE /\ AddKeyFrame(vpKFs[p1Idx])
            /\ count' = count + 1
  /\ p1Idx' = p1Idx + 1
  /\ UNCHANGED <<ctorPc, mbOnlyRelocalization, mMapFile, bUseViewer,
                 lmThread, lcThread, viewerThread, mapFile, loadPc, vpKFs,
                 vMapPoints, kfBad, mpBad, is_finished, p1Pc, p2Pc, p2Idx,
                 ucIdx, ucVisited, mpFinalized>>
  /\ UNCHANGED <<trackVars, shutdownVars>>
  /\ UNCHANGED <<owed, savedAgain, auxVars>>

\* LoadKeyFrames: *p_is_finished = true; the thread ends
LoadKeyFramesEnd ==
  /\ LoadAlive
  /\ p1Pc = "run"
  /\ p1Idx > Len(vpKFs)
  /\ is_finished' = TRUE
  /\ p1Pc' = "done"
  /\ UNCHANGED <<ctorPc, mbOnlyRelocalization, mMapFile, bUseViewer,
                 lmThread, lcThread, viewerThread, mapFile, loadPc, vpKFs,
                 vMapPoints, kfBad, mpBad, kfSlots, mpObs, mspKeyFrames,
                 mspMapPoints, kfDB, installOrder, count, p1Idx, p2Pc, p2Idx,
                 ucIdx, ucVisited, mpFinalized>>
  /\ UNCHANGED <<trackVars, shutdownVars>>
  /\ UNCHANGED <<owed, savedAgain, auxVars>>

\* (phase 2 started without the poll of the flag and without the join)
LoadMapJoin1_NoWait ==
  /\ LoadAlive
  /\ loadPc = "poll"
  /\ p2Pc' = "run"
  /\ p2Idx' = 1
  /\ ucIdx' = 1
  /\ loadPc' = "uc"
  /\ UNCHANGED <<ctorPc, mbOnlyRelocalization, mMapFile, bUseViewer,
                 lmThread, lcThread, viewerThread, mapFile, vpKFs,
                 vMapPoints, kfBad, mpBad, kfSlots, mpObs, mspKeyFrames,
                 mspMapPoints, kfDB, installOrder, count, is_finished, p1Pc,
                 p1Idx, ucVisited, mpFinalized>>
  /\ UNCHANGED <<trackVars, shutdownVars>>
  /\ UNCHANGED <<owed, savedAgain, auxVars>>

\* while (!is_finished) usleep(30000); load_keyframe.join();
\* std::thread load_map_point_thread(...)
LoadMapJoin1 ==
  /\ LoadAlive
  /\ loadPc = "poll"
  /\ is_finished
  /\ p1Pc = "done"
  /\ p2Pc' = "run"
  /\ p2Idx' = 1
  /\ ucIdx' = 1
  /\ loadPc' = "uc"
  /\ UNCHANGED <<ctorPc, mbOnlyRelocalization, mMapFile, bUseViewer,
                 lmThread, lcThread, viewerThread, mapFile, vpKFs,
                 vMapPoints, kfBad, mpBad, kfSlots, mpObs, mspKeyFrames,
                 mspMapPoints, kfDB, installOrder, count, is_finished, p1Pc,
                 p1Idx, ucVisited, mpFinalized>>
  /\ UNCHANGED <<trackVars, shutdownVars>>
  /\ UNCHANGED <<owed, savedAgain, auxVars>>

\* vpKFs[i]->UpdateConnections(): one iteration. On a null entry the call is
\* made through a null pointer: the process dies or the call has no effect.
UpdateConnectionsStep ==
  /\ LoadAlive
  /\ loadPc = "uc"
  /\ ucIdx <= Len(vpKFs)
  /\ IF vpKFs[ucIdx] = Null
       THEN /\ loadPc' \in {"crashed", "uc"}
            /\ ucVisited' = ucVisited
       ELSE /\ loadPc' = loadPc
            /\ ucVisited' = Append(ucVisited, vpKFs[ucIdx])
  /\ ucIdx' = ucIdx + 1
  /\ UNCHANGED <<ctorPc, mbOnlyRelocalization, mMapFile, bUseViewer,
                 lmThread, lcThread, viewerThread, mapFile, vpKFs,
                 vMapPoints, kfBad, mpBad, kfSlots, mpObs, mspKeyFrames,
                 mspMapPoints, kfDB, installOrder, count, is_finished, p1Pc,
                 p1Idx, p2Pc, p2Idx, mpFinalized>>
  /\ UNCHANGED <<trackVars, shutdownVars>>
  /\ UNCHANGED <<owed, savedAgain, auxVars>>

\* LoadMapPoints: one iteration. A null entry is dereferenced: the process
\* dies or the iteration has no effect.
LoadMapPointsStep ==
  /\ LoadAlive
  /\ p2Pc = "run"
  /\ p2Idx <= Len(vMapPoints)
  /\ IF vMapPoints[p2Idx] = Null
       THEN /\ loadPc' \in {"crashed", loadPc}
            /\ UNCHANGED <<mpFinalized, mspMapPoints>>
       ELSE /\ loadPc' = loadPc
            /\ mpFinalized' = mpFinalized \cup {vMapPoints[p2Idx]}
            /\ mspMapPoints' = mspMapPoints \cup {vMapPoints[p2Idx]}
  /\ p2Idx' = p2Idx + 1
  /\ UNCHANGED <<ctorPc, mbOnlyRelocalization, mMapFile, bUseViewer,
                 lmThread, lcThread, viewerThread, mapFile, vpKFs,
                 vMapPoints, kfBad, mpBad, kfSlots, mpObs, mspKeyFrames,
                 kfDB, installOrder, count, is_finished, p1Pc, p1Idx, p2Pc,
                 ucIdx, ucVisited>>
  /\ UNCHANGED <<trackVars, shutdownVars>>
  /\ UNCHANGED <<owed, savedAgain, auxVars>>

\* LoadMapPoints: the end of the loop; the thread ends
LoadMapPointsEnd ==
  /\ LoadAlive
  /\ p2Pc = "run"
  /\ p2Idx > Len(vMapPoints)
  /\ p2Pc' = "done"
  /\ UNCHANGED <<ctorPc, mbOnlyRelocalization, mMapFile, bUseViewer,
                 lmThread, lcThread, viewerThread, mapFile, loadPc, vpKFs,
                 vMapPoints, kfBad, mpBad, kfSlots, mpObs, mspKeyFrames,
                 mspMapPoints, kfDB, installOrder, count, is_finished, p1Pc,
                 p1Idx, p2Idx, ucIdx, ucVisited, mpFinalized>>
  /\ UNCHANGED <<trackVars, shutdownVars>>
  /\ UNCHANGED <<owed, savedAgain, auxVars>>

\* load_map_point_thread.join(); in.close(); return true;
LoadMapJoin2 ==
  /\ LoadAlive
  /\ loadPc = "uc"
  /\ ucIdx > Len(vpKFs)
  /\ p2Pc = "done"
  /\ loadPc' = "retTrue"
  /\ UNCHANGED <<ctorPc, mbOnlyRelocalization, mMapFile, bUseViewer,
                 lmThread, lcThread, viewerThread, mapFile, vpKFs,
                 vMapPoints, kfBad, mpBad, kfSlots, mpObs, mspKeyFrames,
                 mspMapPoints, kfDB, installOrder, count, is_finished, p1Pc,
                 p1Idx, p2Pc, p2Idx, ucIdx, ucVisited, mpFinalized>>
  /\ UNCHANGED <<trackVars, shutdownVars>>
  /\ UNCHANGED <<owed, savedAgain, auxVars>>

\* SaveMap called again on the constructed system (after the startup load
\* when there was one): the same function, writing a second file.
SaveMapAgain ==
  /\ ctorPc = "done"
  /\ savedAgain.status = "missing"
  /\ \/ /\ ctorPc' = "exit"
        /\ savedAgain' = savedAgain
     \/ /\ ctorPc' = ctorPc
        /\ \E order \in Orders(mspMapPoints) :
             savedAgain' = [status |-> "ok", kfs |-> SortById(mspKeyFrames),
                            mps |-> order, kfBad |-> kfBad, kfSlots |-> kfSlots,
                            mpBad |-> mpBad, mpObs |-> mpObs]
  /\ UNCHANGED <<mbOnlyRelocalization, mMapFile, bUseViewer, lmThread, lcThread,
                 viewerThread, mapFile, loadPc, vpKFs, vMapPoints, kfBad, mpBad,
                 kfSlots, mpObs, mspKeyFrames, mspMapPoints, kfDB, installOrder,
                 count, is_finished, p1Pc, p1Idx, p2Pc, p2Idx, ucIdx, ucVisited,
                 mpFinalized>>
  /\ UNCHANGED <<trackVars, shutdownVars, owed, auxVars>>

NextLoad ==
  \/ SaveMap
  \/ SaveMapAgain
  \/ FileDamaged
  \/ FileRemoved
  \/ \E i \in 1..MaxKF : ForeignNullKeyFrame(i)
  \/ \E i \in 1..MaxMP : ForeignNullMapPoint(i)
  \/ SetSlamParams
  \/ CtorCreate
  \/ CtorStartLocalMapping
  \/ CtorStartLoopClosing
  \/ CtorCheckRelocalization
  \/ CtorAfterLoad
  \/ CtorStartViewer
  \/ CtorWire
  \/ LoadMapOpen
  \/ LoadMapDecode
  \/ LoadMapSpawn1
  \/ LoadKeyFramesStep
  \/ LoadKeyFramesEnd
  \/ LoadMapJoin1
  \/ UpdateConnectionsStep
  \/ LoadMapPointsStep
  \/ LoadMapPointsEnd
  \/ LoadMapJoin2

\* A matrix with no rows and no columns.
EmptyMat == [rows |-> 0, cols |-> 0, type |-> 0, step |-> 0, buf |-> <<>>]

\* -------------------------------------------------------- the parts at rest
\* No export is in progress and the tracker holds no trajectory record.
QuietExport ==
  /\ mlbLost = <<>>
  /\ mlpReferences = <<>>
  /\ mpParent = [k \in KFIds |-> Null]
  /\ exPc = "idle"
  /\ exFormat = "none"
  /\ exIdx = 0
  /\ pKF = Null
  /\ outLines = <<>>

\* No matrix is being encoded or decoded.
QuietCodec ==
  /\ codecPc = "idle"
  /\ cvMat = EmptyMat
  /\ stream = <<>>
  /\ cvOut = EmptyMat

\* No thread reads the published results.
QuietReader ==
  /\ readerPc = "idle"
  /\ got = [state |-> 0, mapPoints |-> 0, keyPoints |-> 0]

\* MapChanged has not been called and the store has not changed.
NoPoll ==
  [called |-> FALSE, n0 |-> 0, curn |-> 0, ret |-> FALSE, prevRet |-> FALSE,
   increased |-> FALSE]

QuietMapChanged ==
  /\ MapChanged_n = 0
  /\ mnBigChangeIdx = 0
  /\ mpMap = 1
  /\ increased = FALSE
  /\ mcLast = NoPoll

QuietAux == QuietExport /\ QuietCodec /\ QuietReader /\ QuietMapChanged

\* ------------------------------------------------------- trajectory export
\* The record lists of the tracker: one lost flag and one reference keyframe
\* per processed frame.
RecordLists ==
  UNION {[1..n -> BOOLEAN] \X [1..n -> KFIds] : n \in 0..MaxRecords}

\* The system when an export is called: keyframes with their bad flags and
\* parent references, and the tracker's record lists. Records exist only when
\* keyframes do.
InitExport ==
  /\ \E sensor \in Sensors : QuietTrackOn(sensor, FALSE)
  /\ QuietShutdown
  /\ \/ \E bad \in [KFIds -> BOOLEAN] : Constructed(bad, KFIds)
     \/ Constructed(NoBad(KFIds), {})
  /\ \E r \in RecordLists :
       /\ mlbLost = r[1]
       /\ mlpReferences = r[2]
       /\ mspKeyFrames = {} => r[1] = <<>>
  /\ mpParent \in [KFIds -> KFIds \cup {Null}]
  /\ mspKeyFrames = {} => mpParent = [k \in KFIds |-> Null]
  /\ exPc = "idle"
  /\ exFormat = "none"
  /\ exIdx = 0
  /\ pKF = Null
  /\ outLines = <<>>
  /\ QuietCodec
  /\ QuietReader
  /\ QuietMapChanged

\* SaveTrajectoryTUM (format A) / SaveTrajectoryKITTI (format B): the sensor
\* check
SaveTrajectory(fmt) ==
  /\ exPc = "idle"
  /\ exFormat' = fmt
  /\ exPc' = IF mSensor = "MONOCULAR" THEN "refused" ELSE "origin"
  /\ UNCHANGED <<mlbLost, mlpReferences, mpParent, exIdx, pKF, outLines>>
  /\ UNCHANGED <<trackVars, shutdownVars, loadVars, owed, savedAgain,
                 codecVars, readerVars, mcVars>>

\* vpKFs = mpMap->GetAllKeyFrames(); sort; Two = vpKFs[0]->GetPoseInverse();
\* the file is opened and the iterators are set to the first record. With no
\* keyframe in the store vpKFs[0] reads past an empty vector.
ExportOrigin ==
  /\ exPc = "origin"
  /\ IF mspKeyFrames = {}
       THEN exPc' \in {"crashed", "loop"}
       ELSE exPc' = "loop"
  /\ exIdx' = 1
  /\ UNCHANGED <<mlbLost, mlpReferences, mpParent, exFormat, pKF, outLines>>
  /\ UNCHANGED <<trackVars, shutdownVars, loadVars, owed, savedAgain,
                 codecVars, readerVars, mcVars>>

\* The head of the record loop: format A does "if (*lbL) continue;", format B
\* has no lost-flag iterator; then KeyFrame *pKF = *lRit.
ExportRecord ==
  /\ exPc = "loop"
  /\ exIdx <= Len(mlpReferences)
  /\ IF exFormat = "TUM" /\ mlbLost[exIdx]
       THEN exIdx' = exIdx + 1 /\ UNCHANGED <<exPc, pKF>>
       ELSE exPc' = "walk" /\ pKF' = mlpReferences[exIdx] /\ exIdx' = exIdx
  /\ UNCHANGED <<mlbLost, mlpReferences, mpParent, exFormat, outLines>>
  /\ UNCHANGED <<trackVars, shutdownVars, loadVars, owed, savedAgain,
                 codecVars, readerVars, mcVars>>

\* while (pKF->isBad()) { Trw = Trw * pKF->mTcp; pKF = pKF->GetParent(); }:
\* one evaluation of the condition with pKF bad, or with pKF null (a call
\* through a null pointer: the process dies, or isBad() yields either value).
ExportWalkStep ==
  /\ exPc = "walk"
  /\ \/ /\ pKF # Null
        /\ kfBad[pKF]
        /\ pKF' = mpParent[pKF]
        /\ exPc' = "walk"
     \/ /\ pKF = Null
        /\ pKF' = Null
        /\ exPc' \in {"crashed", "walk", "emit"}
  /\ UNCHANGED <<mlbLost, mlpReferences, mpParent, exFormat, exIdx, outLines>>
  /\ UNCHANGED <<trackVars, shutdownVars, loadVars, owed, savedAgain,
                 codecVars, readerVars, mcVars>>

\* The condition is false: Trw * pKF->GetPose() * Two, and the line is written
\* (pKF->GetPose() through a null pointer: the process dies or a line of
\* garbage is written).
ExportEmit ==
  /\ \/ exPc = "walk" /\ pKF # Null /\ ~kfBad[pKF]
     \/ exPc = "emit"
  /\ \/ /\ outLines' = Append(outLines, exIdx)
        /\ exIdx' = exIdx + 1
        /\ exPc' = "loop"
     \/ /\ exPc = "emit"
        /\ exPc' = "crashed"
        /\ UNCHANGED <<outLines, exIdx>>
  /\ UNCHANGED <<mlbLost, mlpReferences, mpParent, exFormat, pKF>>
  /\ UNCHANGED <<trackVars, shutdownVars, loadVars, owed, savedAgain,
                 codecVars, readerVars, mcVars>>

\* f.close(): the export returns
ExportEnd ==
  /\ exPc = "loop"
  /\ exIdx > Len(mlpReferences)
  /\ exPc' = "done"
  /\ UNCHANGED <<mlbLost, mlpReferences, mpParent, exFormat, exIdx, pKF,
                 outLines>>
  /\ UNCHANGED <<trackVars, shutdownVars, loadVars, owed, savedAgain,
                 codecVars, readerVars, mcVars>>

NextExport ==
  \/ \E fmt \in {"TUM", "KITTI"} : SaveTrajectory(fmt)
  \/ ExportOrigin
  \/ ExportRecord
  \/ ExportWalkStep
  \/ ExportEmit
  \/ ExportEnd

\* ------------------------------------------------------------------ getters
\* A thread about to read the published results with the three getters.
InitReader ==
  /\ readerPc = "GetTrackingState"
  /\ got = [state |-> 0, mapPoints |-> 0, keyPoints |-> 0]

\* int System::GetTrackingState(): lock(mMutexState); return mTrackingState;
GetTrackingState ==
  /\ readerPc = "GetTrackingState"
  /\ got' = [got EXCEPT !.state = published.state]
  /\ readerPc' = "GetTrackedMapPoints"
  /\ UNCHANGED <<trackVars, shutdownVars, loadVars, owed, savedAgain,
                 exportVars, codecVars, mcVars>>

\* System::GetTrackedMapPoints(): lock(mMutexState); return mTrackedMapPoints;
GetTrackedMapPoints ==
  /\ readerPc = "GetTrackedMapPoints"
  /\ got' = [got EXCEPT !.mapPoints = published.mapPoints]
  /\ readerPc' = "GetTrackedKeyPointsUn"
  /\ UNCHANGED <<trackVars, shutdownVars, loadVars, owed, savedAgain,
                 exportVars, codecVars, mcVars>>

\* System::GetTrackedKeyPointsUn(): lock(mMutexState); return mTrackedKeyPointsUn;
GetTrackedKeyPointsUn ==
  /\ readerPc = "GetTrackedKeyPointsUn"
  /\ got' = [got EXCEPT !.keyPoints = published.keyPoints]
  /\ readerPc' = "done"
  /\ UNCHANGED <<trackVars, shutdownVars, loadVars, owed, savedAgain,
                 exportVars, codecVars, mcVars>>

\* Tracking calls and a thread that reads what they publish.
NextReader ==
  \/ \E e \in EntryPoints : TrackBegin(e)
  \/ LockMode
  \/ CheckActivate
  \/ WaitStopped
  \/ InformActivate
  \/ CheckDeactivate
  \/ LockReset
  \/ CheckReset
  \/ GrabImage
  \/ Publish
  \/ LocalMappingStop
  \/ GetTrackingState
  \/ GetTrackedMapPoints
  \/ GetTrackedKeyPointsUn

\* ------------------------------------------------------------ cv::Mat codec
\* Element type tags (m.type()): CV_8UC1, CV_16UC1, CV_32FC1.
MatTypes == {0, 2, 5}

\* m.elemSize(): bytes per element of a type
ElemSize(type) ==
  CASE type = 0 -> 1
    [] type = 2 -> 2
    [] type = 5 -> 4

\* A matrix is its header and its buffer: rows of cols * elemSize bytes, each
\* row starting step bytes after the previous one (step > cols * elemSize for
\* a view into a wider matrix). Bytes are numbered from 0 within a row.
ByteAt(m, r, j) == m.buf[r * m.step + j + 1]

\* m.isContinuous()
IsContinuous(m) == m.rows <= 1 \/ m.step = m.cols * ElemSize(m.type)

\* m.clone(): the same elements in a buffer without gaps
Clone(m) ==
  LET rowBytes == m.cols * ElemSize(m.type)
  IN [m EXCEPT !.step = rowBytes,
               !.buf = [i \in 1..(m.rows * rowBytes) |->
                          ByteAt(m, (i - 1) \div rowBytes, (i - 1) % rowBytes)]]

\* The matrices handed to save: every size and type, continuous or a view
\* with a gap after each row, filled (gaps included) with a byte pattern.
SourceMats ==
  {[rows |-> r, cols |-> c, type |-> t, step |-> c * ElemSize(t) + pad,
    buf |-> [i \in 1..(r * (c * ElemSize(t) + pad)) |->
               (seed + i * (2 * seed + 1)) % 256]] :
     r \in 0..MaxRows, c \in 0..MaxCols, t \in MatTypes, pad \in 0..MaxPad,
     seed \in 0..MaxSeed}

\* (the clone of a non-continuous matrix left out)
Save_NoClone(m) ==
  LET elem_size == ElemSize(m.type)
      data_size == m.cols * m.rows * elem_size
  IN <<m.cols, m.rows, elem_size, m.type>> \o SubSeq(m.buf, 1, data_size)

\* save(ar, m, version): what it appends to the archive
Save(m) ==
  LET m_ == IF IsContinuous(m) THEN m ELSE Clone(m)
      elem_size == ElemSize(m_.type)
      data_size == m_.cols * m_.rows * elem_size
  IN <<m_.cols, m_.rows, elem_size, m_.type>> \o SubSeq(m_.buf, 1, data_size)

\* load(ar, m, version): the matrix it builds from the head of the archive
Load(ar) ==
  LET cols == ar[1]
      rows == ar[2]
      elem_size == ar[3]
      elem_type == ar[4]
      data_size == cols * rows * elem_size
  IN [rows |-> rows, cols |-> cols, type |-> elem_type,
      step |-> cols * ElemSize(elem_type),
      buf |-> SubSeq(ar, 5, 4 + data_size)]

InitCodec ==
  /\ codecPc = "source"
  /\ cvMat \in SourceMats
  /\ stream = <<>>
  /\ cvOut = EmptyMat

\* oa << m
Encode ==
  /\ codecPc = "source"
  /\ stream' = stream \o Save(cvMat)
  /\ codecPc' = "encoded"
  /\ UNCHANGED <<cvMat, cvOut>>
  /\ UNCHANGED <<trackVars, shutdownVars, loadVars, owed, savedAgain,
                 exportVars, readerVars, mcVars>>

\* ia >> m
Decode ==
  /\ codecPc = "encoded"
  /\ cvOut' = Load(stream)
  /\ codecPc' = "decoded"
  /\ UNCHANGED <<cvMat, stream>>
  /\ UNCHANGED <<trackVars, shutdownVars, loadVars, owed, savedAgain,
                 exportVars, readerVars, mcVars>>

NextCodec ==
  \/ Encode
  \/ Decode

\* ----------------------------------------------------------- specifications
\* Tracking calls and the setters, after construction.
Init == InitTrack /\ QuietShutdown /\ QuietLoad /\ QuietAux

Spec == Init /\ [][NextTrack]_vars

\* Shutdown and the workers it waits for, called in mapping mode or in
\* localization-only mode (mapping worker stopped).
InitAtShutdown ==
  /\ InitShutdown
  /\ \E stopped \in BOOLEAN : QuietTrack(stopped)
  /\ QuietLoad
  /\ QuietAux

SpecShutdown == InitAtShutdown /\ [][NextShutdown]_vars

\* An earlier run saves its map; a new process is constructed and loads it.
InitAtLoad == InitLoad /\ QuietTrack(FALSE) /\ QuietShutdown /\ QuietAux

SpecLoad == InitAtLoad /\ [][NextLoad]_vars

\* A process starts on what earlier runs left on disk: no snapshot, a damaged
\* one, or one saved from a store in which nothing is bad.
StartupFiles ==
  {NoFile, [NoFile EXCEPT !.status = "corrupt"]}
    \cup {[status |-> "ok", kfs |-> SortById(KFIds), mps |-> order,
           kfBad |-> NoBad(KFIds), kfSlots |-> slots, mpBad |-> NoBad(MPIds),
           mpObs |-> ObsOf(slots)] :
            slots \in [KFIds -> SlotMaps], order \in Orders(MPIds)}

\* The new process before its constructor has run.
ProcessStart ==
  /\ ctorPc = "saved"
  /\ mbOnlyRelocalization = FALSE
  /\ mMapFile = ""
  /\ bUseViewer = FALSE
  /\ lmThread = FALSE
  /\ lcThread = FALSE
  /\ viewerThread = FALSE
  /\ mapFile \in StartupFiles
  /\ loadPc = "none"
  /\ vpKFs = <<>>
  /\ vMapPoints = <<>>
  /\ kfBad = NoBad(KFIds)
  /\ mpBad = NoBad(MPIds)
  /\ kfSlots = NoSlots
  /\ mpObs = NoObs
  /\ mspKeyFrames = {}
  /\ mspMapPoints = {}
  /\ kfDB = {}
  /\ installOrder = <<>>
  /\ count = 0
  /\ is_finished = FALSE
  /\ p1Pc = "none"
  /\ p1Idx = 0
  /\ p2Pc = "none"
  /\ p2Idx = 0
  /\ ucIdx = 0
  /\ ucVisited = <<>>
  /\ mpFinalized = {}
  /\ savedAgain = NoFile

InitStartup == InitTrack /\ QuietShutdown /\ ProcessStart /\ QuietAux

\* Construction (with the startup load), then tracking calls; no setter is
\* called.
NextStartup ==
  \/ SetSlamParams
  \/ CtorCreate
  \/ CtorStartLocalMapping
  \/ CtorStartLoopClosing
  \/ CtorCheckRelocalization
  \/ CtorAfterLoad
  \/ CtorStartViewer
  \/ CtorWire
  \/ LoadMapOpen
  \/ LoadMapDecode
  \/ LoadMapSpawn1
  \/ LoadKeyFramesStep
  \/ LoadKeyFramesEnd
  \/ LoadMapJoin1
  \/ UpdateConnectionsStep
  \/ LoadMapPointsStep
  \/ LoadMapPointsEnd
  \/ LoadMapJoin2
  \/ \E e \in EntryPoints : TrackBegin(e)
  \/ LockMode
  \/ CheckActivate
  \/ WaitStopped
  \/ InformActivate
  \/ CheckDeactivate
  \/ LockReset
  \/ CheckReset
  \/ GrabImage
  \/ Publish
  \/ LocalMappingStop

SpecStartup == InitStartup /\ [][NextStartup]_vars

\* A trajectory export on a constructed system.
SpecExport == InitExport /\ [][NextExport]_vars

\* The same with the exporting thread always scheduled.
SpecExportFair == SpecExport /\ WF_vars(NextExport)

\* A matrix is encoded into an archive and decoded from it.
InitAtCodec ==
  /\ InitCodec
  /\ QuietTrack(FALSE)
  /\ QuietShutdown
  /\ QuietLoad
  /\ QuietExport
  /\ QuietReader
  /\ QuietMapChanged

SpecCodec == InitAtCodec /\ [][NextCodec]_vars

InitAtReader ==
  /\ InitTrack
  /\ QuietShutdown
  /\ QuietLoad
  /\ QuietExport
  /\ QuietCodec
  /\ QuietMapChanged
  /\ InitReader

SpecReader == InitAtReader /\ [][NextReader]_vars

\* ------------------------------------------------------------- MapChanged
\* A System has been constructed; its store's counter is at 0 and the static
\* of MapChanged has its initial value.
InitMapChanged ==
  /\ MapChanged_n = 0
  /\ mnBigChangeIdx = 0
  /\ mpMap = 1
  /\ increased = FALSE
  /\ mcLast = NoPoll

\* Map::InformNewBigChange(): a structural change of the store.
InformNewBigChange ==
  /\ mnBigChangeIdx < MaxBigChange
  /\ mnBigChangeIdx' = mnBigChangeIdx + 1
  /\ increased' = TRUE
  /\ UNCHANGED <<MapChanged_n, mpMap, mcLast>>
  /\ UNCHANGED <<trackVars, shutdownVars, loadVars, owed, savedAgain,
                 exportVars, codecVars, readerVars>>

\* mpMap = new Map(): another System is constructed in the same process and
\* is the one polled from now on; the function-static n is not touched.
NewSystem ==
  /\ mpMap < MaxMaps
  /\ mpMap' = mpMap + 1
  /\ mnBigChangeIdx' = 0
  /\ increased' = FALSE
  /\ UNCHANGED <<MapChanged_n, mcLast>>
  /\ UNCHANGED <<trackVars, shutdownVars, loadVars, owed, savedAgain,
                 exportVars, codecVars, readerVars>>

\* bool System::MapChanged()
MapChanged ==
  /\ LET curn == mnBigChangeIdx
         ret == MapChanged_n < curn
     IN /\ MapChanged_n' = IF ret THEN curn ELSE MapChanged_n
        /\ mcLast' = [called |-> TRUE, n0 |-> MapChanged_n, curn |-> curn,
                      ret |-> ret, prevRet |-> mcLast.ret,
                      increased |-> increased]
  /\ increased' = FALSE
  /\ UNCHANGED <<mnBigChangeIdx, mpMap>>
  /\ UNCHANGED <<trackVars, shutdownVars, loadVars, owed, savedAgain,
                 exportVars, codecVars, readerVars>>

NextMapChanged ==
  \/ InformNewBigChange
  \/ NewSystem
  \/ MapChanged

InitAtMapChanged ==
  /\ InitMapChanged
  /\ QuietTrack(FALSE)
  /\ QuietShutdown
  /\ QuietLoad
  /\ QuietExport
  /\ QuietCodec
  /\ QuietReader

SpecMapChanged == InitAtMapChanged /\ [][NextMapChanged]_vars

\* =================================================================== claims
Positions(ev) == {i \in 1..Len(callLog) : callLog[i] = ev}
ActivateSteps == <<"RequestStop", "isStopped", "InformOnlyTracking">>
InFrame == fgPc \in {"grab", "publish"}

\* C1: when pending-activate is set before a tracking call starts, the call
\* issues RequestStop first, then sees isStopped() return true, and only then
\* informs the tracking collaborator; GrabImage* starts after all three.
C1_ActivateOrdering ==
  /\ "activate" \in pendingAtStart =>
        /\ \A i \in 1..Len(callLog) : i <= 3 => callLog[i] = ActivateSteps[i]
        /\ InFrame => Len(callLog) >= 3
        /\ \A i \in Positions("GrabImage") : i > 3
  /\ fgPc = "informActivate" => lmStopRequested /\ lmStopped
  /\ "activate" \in applied => Len(callLog) >= 3

C1_Witness ==
  /\ "activate" \in pendingAtStart
  /\ fgPc = "grab"
  /\ Len(callLog) >= 3
  /\ \A i \in 1..3 : callLog[i] = ActivateSteps[i]

\* C2: in each entry point, applying pending-activate informs the tracking
\* collaborator with the value true (localization-only) and clears the flag.
C2_ActivateInformsLocalizationOnly ==
  (fgPc = "checkDeactivate" /\ "activate" \in applied) =>
     (mbOnlyTracking = TRUE /\ ~mbActivateLocalizationMode)

\* C3 (as claimed): in a single tracking call at most one of the three
\* transitions (activate, deactivate, reset) is applied.
C3_MutuallyExclusive == Cardinality(applied) <= 1

\* C3 (amended): the three checks are independent and run in the order
\* activate, deactivate, reset; every flag that was set before the call is
\* applied in that call, each at most once, so one call may apply all three.
C3_IndependentChecks ==
  /\ InFrame => pendingAtStart \subseteq applied
  /\ \A ev \in {"RequestStop", "Release", "Reset"} : Cardinality(Positions(ev)) <= 1
  /\ \A i \in Positions("RequestStop"), j \in Positions("Release") : i < j
  /\ \A i \in Positions("InformOnlyTracking"), j \in Positions("Reset") : i < j

C3_Witness == InFrame /\ applied = Transitions

\* C4: the tracking collaborator is mutated (InformOnlyTracking, Reset) only
\* by the foreground thread and never while a GrabImage* is in progress; the
\* setters only set their pending flag.
C4_TrackerMutatedOnlyByForeground ==
  /\ lastOp.thread \in {"none", "fg"}
  /\ ~lastOp.inGrab

C4_Witness ==
  /\ fgPc = "grab"
  /\ mbReset /\ mbActivateLocalizationMode
  /\ lastOp.op = "Reset"

InWorkerWait == sdPc \in {"readLM", "readLC", "readGBA"}

\* C5: Shutdown() returns only in a state where the mapping worker and the
\* loop-closing worker report finished and no global optimization pass is
\* running; finish is requested on both workers before any waiting starts.
C5_ShutdownCompletion ==
  /\ sdCalls >= 1 => lmFinished /\ lcFinished /\ ~gbaRunning
  /\ (InWorkerWait \/ sdPc = "waitViewer") => lmFinishRequested /\ lcFinishRequested

C5_Witness == sdCalls = 1 /\ sdPc = "idle" /\ lmFinished /\ lcFinished

\* C6 (as claimed): the visualization worker's finish is requested only after
\* both workers have reported finished and no global optimization is in flight.
C6_ViewerAfterWorkers ==
  vFinishRequested => lmFinished /\ lcFinished /\ ~gbaRunning

\* C6 (amended): when a visualization worker is present, its finish is
\* requested after finish was requested on both workers and it is waited for
\* before the wait for the mapping and loop-closing workers starts: that wait
\* starts only once the visualization worker has reported finished.
C6_ViewerBeforeWorkers ==
  /\ vFinishRequested => lmFinishRequested /\ lcFinishRequested
  /\ (mpViewer /\ (InWorkerWait \/ sdCalls >= 1)) => vFinishRequested /\ vFinished

C6_Witness ==
  mpViewer /\ sdPc = "readLM" /\ sdCalls = 0 /\ vFinished /\ ~lmFinished /\ ~lcFinished

\* C7: a second Shutdown() after a completed first one never finds a polling
\* condition unsatisfied (so it cannot hang in either loop) and the workers'
\* finished state stays as the first call left it.
C7_SecondShutdown ==
  sdCalls >= 1 =>
    /\ sdPc = "waitViewer" => vFinished
    /\ sdPc = "readLM" => lmFinished
    /\ sdPc = "readLC" => lcFinished
    /\ sdPc = "readGBA" => ~gbaRunning
    /\ lmFinished /\ lcFinished /\ (mpViewer => vFinished)

C7_Witness == sdCalls = 2 /\ mpViewer /\ vFinished /\ lmFinished /\ lcFinished

Loaded == loadPc \in {"retTrue", "loaded"}
LoadFailed == loadPc \in {"retFalse", "notLoaded", "threw"}
StoreEmpty == mspKeyFrames = {} /\ mspMapPoints = {} /\ kfDB = {}
SurvivingKFs == mspKeyFrames
SurvivingMPs == {p \in mspMapPoints : ~mpBad[p]}

\* C8: LoadMap fails (returns false or throws as a whole) only before any
\* phase task was started and with the store and the keyframe index unchanged;
\* once phase 1 has been started, Load runs both phases to completion and
\* returns true (it never dies in between).
C8_LoadAllOrNothing ==
  /\ LoadFailed => p1Pc = "none" /\ p2Pc = "none" /\ StoreEmpty /\ installOrder = <<>>
  /\ (loadPc = "decode" /\ mapFile.status = "ok") => mMapFile # ""
  /\ loadPc # "crashed"

\* C9 (as claimed): after Save and Load, for every surviving keyframe k and
\* surviving landmark p, k's slot i holds p iff p's observation map contains
\* (k -> i); and no surviving landmark's observation map refers to a keyframe
\* that was skipped as bad.
C9_NoObservationOfSkipped ==
  Loaded =>
    /\ \A k \in SurvivingKFs, p \in SurvivingMPs, i \in SlotIds :
         kfSlots[k][i] = p <=> mpObs[p][k] = i
    /\ \A p \in SurvivingMPs, k \in KFIds :
         (mpObs[p][k] # Null /\ kfBad[k]) => k \in mspKeyFrames

\* C9 (amended): after Save and Load, for every surviving keyframe k and
\* surviving landmark p, k's slot i holds p iff p's observation map contains
\* (k -> i); a surviving landmark's observation map keeps, unchanged, the
\* entries the snapshot held for the keyframes that were not installed (the
\* ones skipped as bad included).
C9_RoundTripConsistency ==
  Loaded =>
    /\ \A k \in SurvivingKFs, p \in SurvivingMPs, i \in SlotIds :
         kfSlots[k][i] = p <=> mpObs[p][k] = i
    /\ \A p \in MPIds, k \in KFIds \ mspKeyFrames :
         mpObs[p][k] = mapFile.mpObs[p][k]

C9_Witness ==
  /\ loadPc = "retTrue"
  /\ Null \notin Range(mapFile.kfs) \cup Range(mapFile.mps)
  /\ \E k \in SurvivingKFs, b \in KFIds \ mspKeyFrames, p \in SurvivingMPs :
       /\ kfBad[b]
       /\ mpObs[p][b] # Null
       /\ \E i \in SlotIds : kfSlots[k][i] = p /\ mpObs[p][k] = i

\* C10: while Load's phase-1/phase-2 reconstruction is writing the store, no
\* mapping or loop-closing worker thread is running and able to write it.
C10_LoadBeforeWorkers ==
  (p1Pc = "run" \/ p2Pc = "run") => ~(lmThread /\ ~lmStopped) /\ ~lcThread

\* The first tracking call has applied its transitions (it is past the mode
\* block), or a later call is in progress.
FirstCallApplied ==
  calls >= 1 /\ fgPc \in {"lockReset", "checkReset", "grab", "publish", "idle"}

\* C11: with OnlyRelocalization configured and the startup Load successful,
\* once the first tracking call has applied its transitions the tracker was
\* last informed localization-only and the mapping worker is stopped and not
\* released, whatever the two mode hints are; and a failed startup Load leaves
\* pending-activate as the configuration set it.
C11_ForcedLocalization ==
  /\ []((mbOnlyRelocalization /\ loadPc = "loaded" /\ FirstCallApplied) =>
          (mbOnlyTracking /\ lmStopRequested /\ lmStopped))
  /\ [][(ctorPc = "load" /\ loadPc = "retFalse") =>
          mbActivateLocalizationMode' = mbActivateLocalizationMode]_vars

\* The records that are not lost, in list order.
RECURSIVE NonLostFrom(_)
NonLostFrom(i) ==
  IF i > Len(mlbLost) THEN <<>>
  ELSE (IF mlbLost[i] THEN <<>> ELSE <<i>>) \o NonLostFrom(i + 1)

\* C12: a finished export, in either format, has written exactly one line per
\* non-lost record, in record order, and no line for a lost record.
C12_TrajectorySkipRule ==
  exPc = "done" => outLines = NonLostFrom(1)

\* C18: every export comes to an end: it returns (after writing its lines, or
\* refusing the sensor) or reports a broken parent chain; it never walks a
\* parent chain forever and never goes through a null parent.
C18_ExportTerminates ==
  /\ <>(exPc \in {"done", "refused", "reported"})
  /\ [](exPc # "crashed")

\* The first file is as SaveMap wrote it and the startup load of it succeeded.
ReloadedOwnSnapshot ==
  /\ loadPc = "loaded"
  /\ Null \notin Range(mapFile.kfs) \cup Range(mapFile.mps)

\* C13: Save, Load into the empty store, Save again: the second file's
\* keyframe section is the first file's (same keyframes in the same order,
\* each with the same record), whatever the saved store held, bad keyframes
\* included.
C13_IdempotentReload ==
  (ReloadedOwnSnapshot /\ savedAgain.status = "ok") =>
     /\ savedAgain.kfs = mapFile.kfs
     /\ \A k \in Range(mapFile.kfs) :
          /\ savedAgain.kfBad[k] = mapFile.kfBad[k]
          /\ savedAgain.kfSlots[k] = mapFile.kfSlots[k]

\* C14: the encoding of a matrix is its column count, row count, element
\* size and element type tag followed by exactly cols * rows * elemSize bytes,
\* and decoding it gives a matrix with the same rows, cols and type whose
\* elements are byte for byte those of the source, also when the source buffer
\* is not continuous.
C14_MatRoundTrip ==
  LET es == ElemSize(cvMat.type)
  IN /\ codecPc \in {"encoded", "decoded"} =>
          /\ Len(stream) = 4 + cvMat.cols * cvMat.rows * es
          /\ SubSeq(stream, 1, 4) = <<cvMat.cols, cvMat.rows, es, cvMat.type>>
     /\ codecPc = "decoded" =>
          /\ cvOut.rows = cvMat.rows
          /\ cvOut.cols = cvMat.cols
          /\ cvOut.type = cvMat.type
          /\ \A r \in 0..(cvMat.rows - 1), j \in 0..(cvMat.cols * es - 1) :
               ByteAt(cvOut, r, j) = ByteAt(cvMat, r, j)

C14_Witness ==
  /\ codecPc = "decoded"
  /\ cvMat.rows = 3 /\ cvMat.cols = 4 /\ ElemSize(cvMat.type) = 4
  /\ ~IsContinuous(cvMat)
  /\ ByteAt(cvOut, 2, 15) = ByteAt(cvMat, 2, 15)
  /\ ByteAt(cvMat, 2, 15) # ByteAt(cvMat, 0, 0)

\* C15: the three published values are always those of one frame, and a
\* thread that has called the three getters, concurrently with tracking
\* calls, holds a state, landmarks and keypoints of one and the same frame.
C15_ConsistentSnapshot ==
  /\ published.state = published.mapPoints
  /\ published.state = published.keyPoints
  /\ readerPc = "done" => (got.state = got.mapPoints /\ got.state = got.keyPoints)

\* C16: phase 1 sets its flag only after it has processed every decoded
\* keyframe; phase 2 and the covisibility rebuild start only after the flag is
\* set and phase 1 has ended (so the two phase tasks never run together);
\* LoadMap returns true only after the rebuild has visited every entry and
\* phase 2 has ended.
C16_LoadPhaseOrdering ==
  /\ is_finished => (p1Pc = "done" /\ p1Idx > Len(vpKFs))
  /\ (p2Pc # "none" \/ loadPc = "uc" \/ ucVisited # <<>>) =>
        (loadPc = "loaded" \/ (is_finished /\ p1Pc = "done"))
  /\ ~(p1Pc = "run" /\ p2Pc = "run")
  /\ loadPc = "retTrue" =>
        (ucIdx > Len(vpKFs) /\ p2Pc = "done" /\ p2Idx > Len(vMapPoints))

C16_Witness ==
  /\ loadPc = "retTrue"
  /\ Len(vpKFs) = MaxKF
  /\ Len(ucVisited) = MaxKF
  /\ mpFinalized # {}

\* C17: during and after Load no null entry is gone through, the covisibility
\* rebuild visits no bad keyframe, and the store and the keyframe index hold
\* no keyframe and no landmark that is bad.
C17_BadEntriesSkipped ==
  loadPc # "none" =>
    /\ loadPc # "crashed"
    /\ \A i \in 1..Len(ucVisited) : ~kfBad[ucVisited[i]]
    /\ \A k \in mspKeyFrames \cup kfDB : ~kfBad[k]
    /\ \A p \in mspMapPoints : ~mpBad[p]

\* The entries of a decoded keyframe sequence that phase 1 installs.
RECURSIVE Survivors(_)
Survivors(seq) ==
  IF seq = <<>> THEN <<>>
  ELSE (IF Head(seq) = Null \/ kfBad[Head(seq)] THEN <<>> ELSE <<Head(seq)>>)
         \o Survivors(Tail(seq))

NonDecreasing(seq) ==
  \A i, j \in 1..Len(seq) :
     (i < j /\ seq[i] # Null /\ seq[j] # Null) => seq[i] <= seq[j]

\* C19: the keyframe ids in the file and in the decoded sequence are
\* non-decreasing; phase 1 installs the surviving keyframes in decode order,
\* counting each; once the phase-1-complete flag is set the counter is the
\* number of surviving keyframes.
C19_OrderPreserved ==
  /\ NonDecreasing(mapFile.kfs)
  /\ NonDecreasing(vpKFs)
  /\ p1Pc = "run" =>
        /\ installOrder = Survivors(SubSeq(vpKFs, 1, p1Idx - 1))
        /\ count = Len(installOrder)
  /\ is_finished =>
        /\ installOrder = Survivors(vpKFs)
        /\ count = Len(Survivors(vpKFs))

C19_Witness ==
  /\ loadPc = "uc"
  /\ is_finished
  /\ Len(vpKFs) = MaxKF
  /\ count = MaxKF
  /\ installOrder = SortById(KFIds)

\* C20: a request made through a setter stays set until a tracking call's
\* check of it starts, and that call applies it; a flag is cleared only by the
\* call that applies it, once per application; while the foreground call
\* polls for the mapping worker to stop it holds the mode lock (a mode setter
\* waits), and once the poll has ended it leaves the mode block without
\* waiting again, after which a waiting setter can go on.
C20_NoRequestLost ==
  /\ [](owed \subseteq PendingFlags)
  /\ [](fgPc \in {"waitStopped", "informActivate"} =>
          (mbActivateLocalizationMode /\ mMutexMode = "fg"))
  /\ [](fgPc = "checkDeactivate" =>
          (~mbActivateLocalizationMode /\ mMutexMode = "fg"))
  /\ [](fgPc = "informActivate" => ENABLED InformActivate)
  /\ [](fgPc = "checkDeactivate" => ENABLED CheckDeactivate)
  /\ [](\A t \in Setters :
          (setterPc[t] = "Activate" /\ mMutexMode = "free" /\ fgPc # "exit") =>
             ENABLED ActivateLocalizationMode(t))
  /\ [][\A f \in Transitions :
          /\ (f \in PendingFlags /\ f \notin PendingFlags') =>
                (f \notin applied /\ f \in applied')
          /\ (f \notin applied /\ f \in applied') =>
                (f \in PendingFlags /\ f \notin PendingFlags')]_vars
  /\ [][/\ (fgPc = "checkDeactivate" /\ mbDeactivateLocalizationMode
              /\ fgPc' # fgPc) => "deactivate" \in applied'
        /\ (fgPc = "checkReset" /\ mbReset /\ fgPc' # fgPc) =>
              "reset" \in applied']_vars

C20_Witness ==
  /\ calls = 2
  /\ fgPc = "grab"
  /\ "deactivate" \in applied \ pendingAtStart
  /\ "activate" \in applied
  /\ "activate" \in owed
  /\ \E t \in Setters : setterPc[t] = "Reset"

\* C21: a thread that sets pending-deactivate or pending-reset is never
\* blocked by the foreground call's application of pending-activate: while
\* the call polls for the mapping worker to report stopped, or is about to
\* inform the tracker, a setter that has been called can take its lock and
\* write its flag.
C21_SettersNotBlocked ==
  \A t \in Setters :
    fgPc \in {"waitStopped", "informActivate"} =>
      /\ setterPc[t] = "Deactivate" => ENABLED DeactivateLocalizationMode(t)
      /\ setterPc[t] = "Reset" => ENABLED Reset(t)

\* C22: MapChanged returns true exactly when the store's counter is greater
\* than the recorded value and then records the counter; two consecutive
\* calls with no structural change in between never both return true; the
\* recorded value never decreases; and every increase of the counter is
\* reported by the next call, also for a store created after an earlier one
\* was polled.
C22_MapChangedReports ==
  /\ [](mcLast.called =>
          /\ mcLast.ret = (mcLast.curn > mcLast.n0)
          /\ MapChanged_n = IF mcLast.ret THEN mcLast.curn ELSE mcLast.n0)
  /\ [](mcLast.called /\ mcLast.prevRet /\ ~mcLast.increased => ~mcLast.ret)
  /\ [][MapChanged_n' >= MapChanged_n]_vars
  /\ [](mcLast.called /\ mcLast.increased => mcLast.ret)

====
